---- MODULE Spec2Model ----
(***************************************************************************)
(* QuakeInsight: the serverless handlers (seed, fetch-earthquakes,         *)
(* send-sms-alert), the state/region lookup and the archive export,        *)
(* modelled as state machines over small input sets.                       *)
(*                                                                         *)
(* Numbers: coordinates are integers in units of 1/UnitsPerDegree degree,  *)
(* magnitudes and depths are integers in hundredths.                       *)
(***************************************************************************)
EXTENDS Integers, Sequences, FiniteSets, TLC

\* ------------------------------------------------------------------------
\* Generic helpers
\* ------------------------------------------------------------------------

Range(s) == {s[i] : i \in DOMAIN s}

\* Coordinates carry five decimals: one more than toFixed(4) and NUMERIC(8,4) keep.
UnitsPerDegree == 10 ^ 5

\* Magnitudes and depths carry two decimals.
UnitsPerOne == 10 ^ 2
\* ------------------------------------------------------------------------
\* State / region lookup (seed: part_000, fetch-earthquakes: the same text)
\* ------------------------------------------------------------------------

\* The if-chain of getIndianState, one entry per `if (...) return "...";` line, in
\* source order.  Each field holds the bound the condition names (in whole
\* degrees), or is empty when the condition has no such conjunct.
StateRules ==
  <<
     [latGt |-> {32}, latLe |-> {}, lngGe |-> {}, lngLt |-> {77}, label |-> "Jammu & Kashmir"],
     [latGt |-> {30}, latLe |-> {32}, lngGe |-> {}, lngLt |-> {77}, label |-> "Himachal Pradesh"],
     [latGt |-> {29}, latLe |-> {32}, lngGe |-> {77}, lngLt |-> {80}, label |-> "Uttarakhand"],
     [latGt |-> {26}, latLe |-> {30}, lngGe |-> {72}, lngLt |-> {76}, label |-> "Rajasthan"],
     [latGt |-> {28}, latLe |-> {30}, lngGe |-> {76}, lngLt |-> {78}, label |-> "Delhi NCR"],
     [latGt |-> {27}, latLe |-> {31}, lngGe |-> {78}, lngLt |-> {85}, label |-> "Uttar Pradesh"],
     [latGt |-> {24}, latLe |-> {27}, lngGe |-> {80}, lngLt |-> {88}, label |-> "Bihar"],
     [latGt |-> {25}, latLe |-> {28}, lngGe |-> {88}, lngLt |-> {92}, label |-> "West Bengal"],
     [latGt |-> {26}, latLe |-> {28}, lngGe |-> {92}, lngLt |-> {95}, label |-> "Assam"],
     [latGt |-> {25}, latLe |-> {27}, lngGe |-> {93}, lngLt |-> {95}, label |-> "Manipur"],
     [latGt |-> {24}, latLe |-> {26}, lngGe |-> {91}, lngLt |-> {93}, label |-> "Meghalaya"],
     [latGt |-> {23}, latLe |-> {25}, lngGe |-> {91}, lngLt |-> {93}, label |-> "Tripura"],
     [latGt |-> {21}, latLe |-> {24}, lngGe |-> {91}, lngLt |-> {93}, label |-> "Mizoram"],
     [latGt |-> {26}, latLe |-> {28}, lngGe |-> {93}, lngLt |-> {96}, label |-> "Nagaland"],
     [latGt |-> {27}, latLe |-> {29}, lngGe |-> {93}, lngLt |-> {95}, label |-> "Arunachal Pradesh"],
     [latGt |-> {27}, latLe |-> {29}, lngGe |-> {88}, lngLt |-> {89}, label |-> "Sikkim"],
     [latGt |-> {21}, latLe |-> {26}, lngGe |-> {80}, lngLt |-> {88}, label |-> "Jharkhand"],
     [latGt |-> {19}, latLe |-> {22}, lngGe |-> {84}, lngLt |-> {88}, label |-> "Odisha"],
     [latGt |-> {20}, latLe |-> {24}, lngGe |-> {78}, lngLt |-> {85}, label |-> "Chhattisgarh"],
     [latGt |-> {20}, latLe |-> {26}, lngGe |-> {74}, lngLt |-> {80}, label |-> "Madhya Pradesh"],
     [latGt |-> {18}, latLe |-> {24}, lngGe |-> {69}, lngLt |-> {75}, label |-> "Gujarat"],
     [latGt |-> {15}, latLe |-> {22}, lngGe |-> {72}, lngLt |-> {80}, label |-> "Maharashtra"],
     [latGt |-> {13}, latLe |-> {18}, lngGe |-> {74}, lngLt |-> {81}, label |-> "Karnataka"],
     [latGt |-> {8}, latLe |-> {14}, lngGe |-> {74}, lngLt |-> {78}, label |-> "Kerala"],
     [latGt |-> {8}, latLe |-> {13}, lngGe |-> {77}, lngLt |-> {80}, label |-> "Tamil Nadu"],
     [latGt |-> {13}, latLe |-> {19}, lngGe |-> {78}, lngLt |-> {85}, label |-> "Andhra Pradesh"],
     [latGt |-> {15}, latLe |-> {20}, lngGe |-> {78}, lngLt |-> {81}, label |-> "Telangana"],
     [latGt |-> {14}, latLe |-> {16}, lngGe |-> {73}, lngLt |-> {75}, label |-> "Goa"],
     [latGt |-> {6}, latLe |-> {12}, lngGe |-> {92}, lngLt |-> {94}, label |-> "Andaman & Nicobar Islands"]
  >>

\* The condition of one `if` of getIndianState.
RuleMatches(r, lat, lng) ==
  /\ \A b \in r.latGt : lat > b * UnitsPerDegree
  /\ \A b \in r.latLe : lat <= b * UnitsPerDegree
  /\ \A b \in r.lngGe : lng >= b * UnitsPerDegree
  /\ \A b \in r.lngLt : lng < b * UnitsPerDegree

RECURSIVE StateFrom(_, _, _)
\* The chain from its i-th `if` on: the first condition that holds returns.
StateFrom(i, lat, lng) ==
  IF i > Len(StateRules) THEN "India"
  ELSE IF RuleMatches(StateRules[i], lat, lng) THEN StateRules[i].label
  ELSE StateFrom(i + 1, lat, lng)

RECURSIVE LastStateFrom(_, _, _, _)
LastStateFrom(i, lat, lng, acc) ==
  IF i > Len(StateRules) THEN acc
  ELSE LastStateFrom(i + 1, lat, lng,
                     IF RuleMatches(StateRules[i], lat, lng)
                     THEN StateRules[i].label ELSE acc)

\* A lookup in which a later rule overrides an earlier one.
getIndianStateLastWins(lat, lng) == LastStateFrom(1, lat, lng, "India")

getIndianState(lat, lng) == StateFrom(1, lat, lng)

\* getRegion of the seed job: the map literal, in insertion order.
RegionMap ==
  <<
     [region |-> "North-East India",
      states |-> {"Assam", "Manipur", "Meghalaya", "Tripura", "Mizoram",
                  "Nagaland", "Arunachal Pradesh", "Sikkim"}],
     [region |-> "North India",
      states |-> {"Jammu & Kashmir", "Himachal Pradesh", "Uttarakhand",
                  "Delhi NCR", "Uttar Pradesh", "Punjab", "Haryana"}],
     [region |-> "Central India",
      states |-> {"Madhya Pradesh", "Chhattisgarh", "Jharkhand"}],
     [region |-> "West India",
      states |-> {"Gujarat", "Maharashtra", "Rajasthan", "Goa"}],
     [region |-> "South India",
      states |-> {"Karnataka", "Kerala", "Tamil Nadu", "Andhra Pradesh",
                  "Telangana"}],
     [region |-> "East India",
      states |-> {"Bihar", "West Bengal", "Odisha"}]
  >>

RECURSIVE RegionFrom(_, _)
RegionFrom(i, state) ==
  IF i > Len(RegionMap) THEN "India"
  ELSE IF state \in RegionMap[i].states THEN RegionMap[i].region
  ELSE RegionFrom(i + 1, state)

getRegion(state) == RegionFrom(1, state)

\* getRegion of fetch-earthquakes: six arrays and an if-chain.
fetchGetRegion(state) ==
  LET northEast == {"Assam", "Manipur", "Meghalaya", "Tripura", "Mizoram",
                    "Nagaland", "Arunachal Pradesh", "Sikkim"}
      north == {"Jammu & Kashmir", "Himachal Pradesh", "Uttarakhand",
                "Delhi NCR", "Uttar Pradesh", "Punjab", "Haryana"}
      central == {"Madhya Pradesh", "Chhattisgarh", "Jharkhand"}
      west == {"Gujarat", "Maharashtra", "Rajasthan", "Goa"}
      south == {"Karnataka", "Kerala", "Tamil Nadu", "Andhra Pradesh",
                "Telangana"}
      east == {"Bihar", "West Bengal", "Odisha"}
  IN  IF state \in northEast THEN "North-East India"
      ELSE IF state \in north THEN "North India"
      ELSE IF state \in central THEN "Central India"
      ELSE IF state \in west THEN "West India"
      ELSE IF state \in south THEN "South India"
      ELSE IF state \in east THEN "East India"
      ELSE "India"

\* ------------------------------------------------------------------------
\* send-sms-alert: strings are sequences of one-character strings
\* ------------------------------------------------------------------------

Digits == {"0", "1", "2", "3", "4", "5", "6", "7", "8", "9"}

\* JavaScript's \s, as far as the sampled alphabet goes.
Whitespace == {" "}

\* s.replace(/c/g, "") for a class of single characters.
RECURSIVE RemoveAll(_, _)
RemoveAll(s, chars) ==
  IF s = <<>> THEN <<>>
  ELSE IF Head(s) \in chars THEN RemoveAll(Tail(s), chars)
  ELSE <<Head(s)>> \o RemoveAll(Tail(s), chars)

\* s.startsWith(p)
StartsWith(s, p) == Len(s) >= Len(p) /\ SubSeq(s, 1, Len(p)) = p

\* The places at which p occurs in s.
Occurrences(s, p) ==
  {i \in 1..(Len(s) - Len(p) + 1) : SubSeq(s, i, i + Len(p) - 1) = p}

\* s.replace(p, "") with a string pattern: only the first occurrence goes.
ReplaceFirst(s, p) ==
  IF Occurrences(s, p) = {} THEN s
  ELSE LET i == CHOOSE k \in Occurrences(s, p) :
                   \A j \in Occurrences(s, p) : k <= j
       IN  SubSeq(s, 1, i - 1) \o SubSeq(s, i + Len(p), Len(s))

\* /^[6-9]\d{9}$/
MatchesNational(s) ==
  /\ Len(s) = 10
  /\ s[1] \in {"6", "7", "8", "9"}
  /\ \A i \in 2..10 : s[i] \in Digits

Plus91 == <<"+", "9", "1">>
Bare91 == <<"9", "1">>

\* Twilio variant, line 26: whitespace, then hyphens, are removed.
twilioCleanedNumber(phoneNumber) ==
  RemoveAll(RemoveAll(phoneNumber, Whitespace), {"-"})

\* Twilio variant, line 27: /^(\+91|91)?[6-9]\d{9}$/ -- the optional group is
\* tried with each alternative and without.
twilioIsValidIndianNumber(cleanedNumber) ==
  \/ StartsWith(cleanedNumber, Plus91)
       /\ MatchesNational(SubSeq(cleanedNumber, 4, Len(cleanedNumber)))
  \/ StartsWith(cleanedNumber, Bare91)
       /\ MatchesNational(SubSeq(cleanedNumber, 3, Len(cleanedNumber)))
  \/ MatchesNational(cleanedNumber)

\* E.164 formatting that takes every leading 91 for the country code.
twilioFormattedNumberByPrefix(cleanedNumber) ==
  IF StartsWith(cleanedNumber, Plus91) THEN cleanedNumber
  ELSE IF StartsWith(cleanedNumber, Bare91) THEN <<"+">> \o cleanedNumber
  ELSE Plus91 \o cleanedNumber

\* Twilio variant, lines 38-45: E.164 formatting.
twilioFormattedNumber(cleanedNumber) ==
  IF StartsWith(cleanedNumber, Plus91) THEN cleanedNumber
  ELSE IF StartsWith(cleanedNumber, Bare91) /\ Len(cleanedNumber) = 12
       THEN <<"+">> \o cleanedNumber
  ELSE IF Len(cleanedNumber) = 10 THEN Plus91 \o cleanedNumber
  ELSE cleanedNumber

\* Fast2SMS variant, line 186: separators go, then the first "+91" wherever it
\* stands, then the first "91" wherever it stands.
fast2smsCleanedNumber(phoneNumber) ==
  ReplaceFirst(
    ReplaceFirst(RemoveAll(RemoveAll(phoneNumber, Whitespace), {"-"}), Plus91),
    Bare91)

\* Fast2SMS variant, line 187: /^[6-9]\d{9}$/
fast2smsIsValidIndianNumber(cleanedNumber) == MatchesNational(cleanedNumber)

\* ---- responses ----------------------------------------------------------

\* A body with no fields: `new Response(null, ...)`.
EmptyBody == [f \in {} |-> TRUE]

\* The CORS preflight answer of every handler.
PreflightResponse == [status |-> 200, body |-> EmptyBody]

ErrorResponse(status, message) == [status |-> status, body |-> [error |-> message]]

\* A catch that answers with status 200.
smsCatchLenient(message) == [status |-> 200, body |-> [error |-> message]]

\* The outer catch of send-sms-alert: error.message || "An unexpected error occurred".
smsCatch(message) ==
  ErrorResponse(500, IF message = "" THEN "An unexpected error occurred" ELSE message)

InvalidPhoneMessage ==
  "Please enter a valid Indian mobile number (10 digits starting with 6-9)"

SmsSuccessMessage == "Alert registered! You will receive a confirmation SMS shortly."

\* Messages of exceptions the runtime raises (not texts of the handler).
JsonSyntaxError == "SyntaxError: Unexpected token in JSON"
ReplaceTypeError == "TypeError: Cannot read properties of undefined (reading 'replace')"
NullTypeError == "TypeError: Cannot read properties of null"

\* ---- Twilio variant (send-sms-alert/index.ts lines 14-157) ----------------

\* !twilioAccountSid: unset or the empty string.
SidMissing(sid) == ~sid.present \/ sid.length = 0

\* Lines 20-92: everything before the outbound fetch.  The result is either the
\* response to return or the message to hand to the gateway.
twilioBefore(req, env) ==
  IF req.method = "OPTIONS" THEN [kind |-> "respond", resp |-> PreflightResponse]
  ELSE IF ~req.parses THEN [kind |-> "respond", resp |-> smsCatch(JsonSyntaxError)]
  ELSE IF ~req.hasPhone THEN [kind |-> "respond", resp |-> smsCatch(ReplaceTypeError)]
  ELSE LET cleanedNumber == twilioCleanedNumber(req.phoneNumber) IN
    IF ~twilioIsValidIndianNumber(cleanedNumber)
    THEN [kind |-> "respond", resp |-> ErrorResponse(400, InvalidPhoneMessage)]
    ELSE IF SidMissing(env.sid) \/ ~env.hasToken \/ ~env.hasFrom
    THEN [kind |-> "respond",
          resp |-> ErrorResponse(500,
                     "SMS service not configured. Please contact administrator.")]
    ELSE IF ~env.sid.startsWithAC \/ env.sid.length # 34
    THEN [kind |-> "respond",
          resp |-> ErrorResponse(500,
                     "SMS service configuration error. Invalid Account SID format.")]
    ELSE [kind |-> "call",
          call |-> [To |-> twilioFormattedNumber(cleanedNumber),
                    gateway |-> "twilio"]]

\* Lines 112-130: the message for a non-OK gateway answer.
twilioErrorMessage(gw) ==
  IF ~gw.parses \/ gw.isNull THEN "Failed to send SMS"
  ELSE IF gw.code = 20003
       THEN "SMS service authentication failed. Please check credentials."
  ELSE IF gw.code = 21211 THEN "Invalid 'To' phone number format."
  ELSE IF gw.code = 21608
       THEN "The 'From' number is not verified for this region."
  ELSE IF gw.code = 21610 THEN "This number has unsubscribed from SMS."
  ELSE IF gw.message # "" THEN gw.message
  ELSE "Failed to send SMS"

\* A handler that answers success whatever the gateway said.
twilioAfterAlwaysSuccess(gw) ==
  [status |-> 200,
   body |-> [success |-> TRUE, message |-> SmsSuccessMessage, sid |-> "SM1"]]

\* Lines 94-156: from the gateway's answer to the response.
twilioAfter(gw) ==
  IF gw.threw THEN smsCatch(gw.thrown)
  ELSE IF ~gw.ok THEN ErrorResponse(500, twilioErrorMessage(gw))
  ELSE IF ~gw.parses THEN smsCatch(JsonSyntaxError)
  ELSE IF gw.isNull THEN smsCatch(NullTypeError)
  ELSE [status |-> 200,
        body |-> [success |-> TRUE, message |-> SmsSuccessMessage, sid |-> gw.sid]]

\* ---- Fast2SMS variant (send-sms-alert/index.ts lines 174-293) -------------

fast2smsBefore(req, env) ==
  IF req.method = "OPTIONS" THEN [kind |-> "respond", resp |-> PreflightResponse]
  ELSE IF ~req.parses THEN [kind |-> "respond", resp |-> smsCatch(JsonSyntaxError)]
  ELSE IF ~req.hasPhone THEN [kind |-> "respond", resp |-> smsCatch(ReplaceTypeError)]
  ELSE LET cleanedNumber == fast2smsCleanedNumber(req.phoneNumber) IN
    IF ~fast2smsIsValidIndianNumber(cleanedNumber)
    THEN [kind |-> "respond", resp |-> ErrorResponse(400, InvalidPhoneMessage)]
    ELSE IF ~env.hasApiKey
    THEN [kind |-> "respond",
          resp |-> ErrorResponse(500,
                     "SMS service not configured. Please add FAST2SMS_API_KEY.")]
    ELSE [kind |-> "call",
          call |-> [To |-> cleanedNumber, gateway |-> "fast2sms"]]

\* Lines 258-267: the message when result.return is falsy.
fast2smsErrorMessage(gw) ==
  IF gw.code = 411 THEN "Invalid API key. Please check your Fast2SMS API key."
  ELSE IF gw.code = 412
       THEN "Insufficient balance. Please recharge your Fast2SMS account."
  ELSE IF gw.code = 413 THEN "Invalid mobile number format."
  ELSE IF gw.message # "" THEN gw.message
  ELSE "Failed to send SMS"

\* Lines 226-292: from the gateway's answer to the response.  The HTTP status
\* of the gateway (gw.ok) is logged and not consulted.
fast2smsAfter(gw) ==
  IF gw.threw THEN smsCatch(gw.thrown)
  ELSE IF ~gw.parses THEN ErrorResponse(500, "Invalid response from SMS service")
  ELSE IF gw.isNull THEN smsCatch(NullTypeError)
  ELSE IF ~gw.return THEN ErrorResponse(500, fast2smsErrorMessage(gw))
  ELSE [status |-> 200,
        body |-> [success |-> TRUE, message |-> SmsSuccessMessage,
                  requestId |-> gw.sid]]

\* ---- sampled inputs ------------------------------------------------------

\* The longest run of filler digits in a sampled phone number; with the four
\* fixed digit places a body has up to MaxPad + 4 digits.
MaxPad == 8

RECURSIVE Pad(_)
Pad(k) == IF k <= 0 THEN <<>> ELSE <<"2">> \o Pad(k - 1)

PhonePrefixes ==
  {<<>>, Plus91, Bare91, <<"+">>, <<"0">>, Plus91 \o <<" ">>, Bare91 \o <<"-">>}

PhoneSeparators == {<<>>, <<" ">>, <<"-">>}

PhoneTails == {<<"3", "4">>, <<"9", "1">>, <<"3", "a">>}

PhoneSamples ==
  {pre \o <<d1, d2>> \o Pad(3) \o sep \o Pad(k - 3) \o tail :
     pre \in PhonePrefixes, d1 \in {"5", "6", "9"}, d2 \in {"0", "1"},
     sep \in PhoneSeparators, k \in (MaxPad - 3)..MaxPad, tail \in PhoneTails}

SmsRequests ==
  {[method |-> "OPTIONS", parses |-> TRUE, hasPhone |-> FALSE, phoneNumber |-> <<>>],
   [method |-> "POST", parses |-> FALSE, hasPhone |-> FALSE, phoneNumber |-> <<>>],
   [method |-> "POST", parses |-> TRUE, hasPhone |-> FALSE, phoneNumber |-> <<>>]}
  \cup {[method |-> "POST", parses |-> TRUE, hasPhone |-> TRUE, phoneNumber |-> ph] :
          ph \in PhoneSamples}

GoodSid == [present |-> TRUE, startsWithAC |-> TRUE, length |-> 34]

TwilioEnvs ==
  {[sid |-> GoodSid, hasToken |-> TRUE, hasFrom |-> TRUE],
   [sid |-> GoodSid, hasToken |-> FALSE, hasFrom |-> TRUE],
   [sid |-> GoodSid, hasToken |-> TRUE, hasFrom |-> FALSE],
   [sid |-> [present |-> FALSE, startsWithAC |-> FALSE, length |-> 0],
    hasToken |-> TRUE, hasFrom |-> TRUE],
   [sid |-> [present |-> TRUE, startsWithAC |-> TRUE, length |-> 33],
    hasToken |-> TRUE, hasFrom |-> TRUE],
   [sid |-> [present |-> TRUE, startsWithAC |-> FALSE, length |-> 34],
    hasToken |-> TRUE, hasFrom |-> TRUE]}

Fast2smsEnvs == {[hasApiKey |-> TRUE], [hasApiKey |-> FALSE]}

\* Texts a gateway may put in the message field of its answer ("" = no message).
GatewayMessages == {"", "Permission to send an SMS has not been enabled"}

GatewayAnswers(codes) ==
  {[threw |-> TRUE, thrown |-> m, ok |-> FALSE, parses |-> FALSE, isNull |-> FALSE,
    return |-> FALSE, code |-> 0, message |-> "", sid |-> ""] :
      m \in {"", "error sending request"}}
  \cup
  {[threw |-> FALSE, thrown |-> "", ok |-> ok, parses |-> sh # "garbage",
    isNull |-> sh = "null", return |-> FALSE, code |-> 0, message |-> "", sid |-> ""] :
      ok \in BOOLEAN, sh \in {"garbage", "null"}}
  \cup
  {[threw |-> FALSE, thrown |-> "", ok |-> ok, parses |-> TRUE, isNull |-> FALSE,
    return |-> ret, code |-> c, message |-> m, sid |-> "id-1"] :
      ok \in BOOLEAN, ret \in BOOLEAN, c \in codes, m \in GatewayMessages}

TwilioAnswers == {gw \in GatewayAnswers({0, 20003, 21211, 21608, 21610, 30001}) : gw.return = gw.ok}

Fast2smsAnswers == GatewayAnswers({0, 411, 412, 413, 400})

\* ------------------------------------------------------------------------
\* Seed job (part_000) and the earthquakes table (migration)
\* ------------------------------------------------------------------------

\* "Insert in batches of 500"
BatchSize == 500

\* Feeds hold up to MaxFullBatches full batches, plus possibly one more row.
MaxFullBatches == 1

\* The revisions of the catalogue a seed run may be served.
Revisions == {1, 2}

\* The seed invocations observed (two may overlap).
SeedRuns == {1, 2}

FeedLens == {b * BatchSize + d : b \in 0..MaxFullBatches, d \in {0, 1}}

\* Sampled epicentres <<lng, lat, depth>> (GeoJSON order; depth in hundredths of
\* a km, <<>> standing for a null depth) and sampled times.
CoordSamples ==
  <<  <<7650000, 3410000, <<1000>>>>,    \* Jammu & Kashmir
      <<9229560, 2668606, <<>>>>,        \* Assam, finer than four decimals: 26.68606
      <<7023000, 2342000, <<2360>>>>,    \* Gujarat
      <<9300000, 1300000, <<3000>>>>,    \* no rule matches: "India"
      <<8800000, 2700000, <<1234>>>>  >> \* on the edges of several boxes

TimeSamples ==
  <<  [y |-> 1991, md |-> 1020, ms |-> 10396000],
      [y |-> 1999, md |-> 1231, ms |-> 86399999],
      [y |-> 2000, md |-> 101, ms |-> 0],
      [y |-> 2026, md |-> 227, ms |-> 28344828]  >>

\* Magnitudes in hundredths (<<>>: null), by revision of the catalogue.
MagSamples == << <<450>>, <<>>, <<325>>, <<612>>, <<705>> >>

PlaceSamples == << <<"26 km SE of Taki, India">>, <<>>, <<"Ladakh Region">> >>

Pick(samples, k) == samples[(k % Len(samples)) + 1]

\* Feature i of the catalogue at revision ver.  A revision changes magnitude,
\* place and depth of an event and keeps its id, time and epicentre.
Feature(ver, i) ==
  [id |-> "us" \o ToString(i),
   properties |-> [mag |-> Pick(MagSamples, i + ver),
                   place |-> Pick(PlaceSamples, i + 2 * ver),
                   time |-> Pick(TimeSamples, i)],
   geometry |-> [coordinates |->
                   <<Pick(CoordSamples, i)[1], Pick(CoordSamples, i)[2],
                     IF ver = 1 THEN Pick(CoordSamples, i)[3]
                     ELSE Pick(CoordSamples, i + 1)[3]>>]]

\* x || fallback for a nullable value kept as <<>> or <<x>>; 0 and "" are falsy.
OrElse(maybe, falsy, fallback) ==
  IF maybe = <<>> THEN fallback
  ELSE IF maybe[1] = falsy THEN fallback ELSE maybe[1]

\* Lines 83-100: one feature to one row.
seedRow(f) ==
  LET lng == f.geometry.coordinates[1]
      lat == f.geometry.coordinates[2]
      depth == f.geometry.coordinates[3]
      state == getIndianState(lat, lng)
      region == getRegion(state)
  IN  [id |-> f.id,
       magnitude |-> OrElse(f.properties.mag, 0, 0),
       location |-> OrElse(f.properties.place, "", state \o ", India"),
       occurred_at |-> f.properties.time,
       depth |-> OrElse(depth, 0, 0),
       latitude |-> lat,
       longitude |-> lng,
       state |-> state,
       region |-> region,
       is_historical |-> f.properties.time.y < 2000,
       source |-> "USGS"]

\* The catalogue at each revision, transformed once: row i of revision ver.
CatalogueRows ==
  [ver \in Revisions |->
     [i \in 1..((MaxFullBatches + 1) * BatchSize) |-> seedRow(Feature(ver, i))]]

\* features.map(...) over the feed [n, ver].
seedRows(feed) == SubSeq(CatalogueRows[feed.ver], 1, feed.n)

Min(a, b) == IF a <= b THEN a ELSE b

RECURSIVE IndexById(_, _, _)
\* Where each id stands in the batch: id -> position, over the positions
\* lo..hi, by halving (lo <= hi).
IndexById(batch, lo, hi) ==
  IF lo = hi THEN batch[lo].id :> lo
  ELSE LET mid == (lo + hi) \div 2
       IN  IndexById(batch, lo, mid) @@ IndexById(batch, mid + 1, hi)

\* Where each id of the catalogue stands in the feed.
CatalogueIndex == IndexById(CatalogueRows[1], 1, (MaxFullBatches + 1) * BatchSize)

\* rows.slice(i, i + 500), i counted from 0 as in the source.
seedBatchOverlapping(rows, i) ==
  SubSeq(rows, IF i = 0 THEN 1 ELSE i, Min(i + BatchSize, Len(rows)))

seedBatch(rows, i) == SubSeq(rows, i + 1, Min(i + BatchSize, Len(rows)))

\* Rounding of a non-negative value to a multiple of unit (NUMERIC(p,s)).
RoundTo(v, unit) == ((v + unit \div 2) \div unit) * unit

\* The columns as the table's types keep them: NUMERIC(3,1), NUMERIC(6,1),
\* NUMERIC(8,4); created_at is not part of the payload.
StoredColumns(row) ==
  [row EXCEPT !.magnitude = RoundTo(row.magnitude, 10),
              !.depth = RoundTo(row.depth, 10),
              !.latitude = RoundTo(row.latitude, UnitsPerDegree \div 10000),
              !.longitude = RoundTo(row.longitude, UnitsPerDegree \div 10000)]

WithCreatedAt(cols, at) ==
  [id |-> cols.id, magnitude |-> cols.magnitude, location |-> cols.location,
   occurred_at |-> cols.occurred_at, depth |-> cols.depth,
   latitude |-> cols.latitude, longitude |-> cols.longitude,
   state |-> cols.state, region |-> cols.region,
   is_historical |-> cols.is_historical, source |-> cols.source,
   created_at |-> at]

\* upsert(batch, { onConflict: "id" }) as one statement: a row whose id is new is
\* inserted (created_at = now), a row whose id exists has every payload column
\* replaced.  tbl maps each id present to the rows that carry it, in a sequence.

\* An upsert that updates the magnitude only where the id exists.
UpsertMerging(tbl, batch, now) ==
  LET ids == {batch[k].id : k \in DOMAIN batch}
      at == IndexById(batch, 1, Len(batch))
  IN  [id \in DOMAIN tbl \cup ids |->
         IF id \notin ids THEN tbl[id]
         ELSE IF id \in DOMAIN tbl
              THEN [k \in DOMAIN tbl[id] |->
                      [tbl[id][k] EXCEPT
                         !.magnitude = StoredColumns(batch[at[id]]).magnitude]]
              ELSE <<WithCreatedAt(StoredColumns(batch[at[id]]), now)>>]

\* A plain insert into a table without the primary key.
UpsertInserting(tbl, batch, now) ==
  LET ids == {batch[k].id : k \in DOMAIN batch}
      at == IndexById(batch, 1, Len(batch))
  IN  [id \in DOMAIN tbl \cup ids |->
         IF id \notin ids THEN tbl[id]
         ELSE (IF id \in DOMAIN tbl THEN tbl[id] ELSE <<>>)
              \o <<WithCreatedAt(StoredColumns(batch[at[id]]), now)>>]

Upsert(tbl, batch, now) ==
  LET ids == {batch[k].id : k \in DOMAIN batch}
      at == IndexById(batch, 1, Len(batch))
  IN  [id \in DOMAIN tbl \cup ids |->
         IF id \notin ids THEN tbl[id]
         ELSE IF id \in DOMAIN tbl
              THEN [k \in DOMAIN tbl[id] |->
                      WithCreatedAt(StoredColumns(batch[at[id]]),
                                    tbl[id][k].created_at)]
              ELSE <<WithCreatedAt(StoredColumns(batch[at[id]]), now)>>]

\* ------------------------------------------------------------------------
\* Row-level security of public.earthquakes (migration lines 24-29)
\* ------------------------------------------------------------------------

\* ALTER TABLE public.earthquakes ENABLE ROW LEVEL SECURITY
RowSecurityEnabled == TRUE

\* The policies created on the table: one, FOR SELECT USING (true).
Policies ==
  {[name |-> "Earthquake data is publicly readable", command |-> "SELECT", using |-> TRUE]}

\* The roles a request reaches the database as: the two a browser's key gives,
\* and the one of the service-role key the seed job creates its client with.
Roles == {"anon", "authenticated", "service_role"}

\* The service role bypasses row security.
BypassesRowSecurity(role) == role = "service_role"

\* Row security lets everything through.
PolicyAllowsAll(role, command) == TRUE

\* With row security enabled, a role that does not bypass it may run a command
\* on a row only if a policy for that command (or FOR ALL) passes.
PolicyAllows(role, command) ==
  \/ ~RowSecurityEnabled
  \/ BypassesRowSecurity(role)
  \/ \E p \in Policies : p.command \in {command, "ALL"} /\ p.using

\* All rows of the table, as a set.
AllRows(tbl) == UNION {{tbl[id][k] : k \in DOMAIN tbl[id]} : id \in DOMAIN tbl}

RowSecurityError == "new row violates row-level security policy for table \"earthquakes\""

DuplicateKeyError == "duplicate key value violates unique constraint \"earthquakes_pkey\""

\* select * from earthquakes: the rows the role's SELECT policies show.
clientSelect(role, tbl) ==
  [table |-> tbl, error |-> "",
   rows |-> IF PolicyAllows(role, "SELECT") THEN AllRows(tbl) ELSE {}]

\* insert into earthquakes values (row): refused without an INSERT policy,
\* refused for an id already there.
clientInsert(role, row, tbl, now) ==
  IF ~PolicyAllows(role, "INSERT")
  THEN [table |-> tbl, error |-> RowSecurityError, rows |-> {}]
  ELSE IF row.id \in DOMAIN tbl
  THEN [table |-> tbl, error |-> DuplicateKeyError, rows |-> {}]
  ELSE [table |-> Upsert(tbl, <<row>>, now), error |-> "", rows |-> {}]

\* The rows with this id that the role may see and may run the command on.
clientTargets(role, command, id, tbl) ==
  IF id \in DOMAIN tbl /\ PolicyAllows(role, "SELECT") /\ PolicyAllows(role, command)
  THEN {tbl[id][k] : k \in DOMAIN tbl[id]}
  ELSE {}

\* update earthquakes set magnitude = m where id = ...: rows the policies hide
\* are passed over without an error.
clientUpdate(role, id, m, tbl) ==
  LET targets == clientTargets(role, "UPDATE", id, tbl) IN
  [table |-> IF targets = {} THEN tbl
             ELSE [tbl EXCEPT ![id] = [k \in DOMAIN tbl[id] |->
                                         [tbl[id][k] EXCEPT !.magnitude = m]]],
   error |-> "", rows |-> targets]

\* delete from earthquakes where id = ...
clientDelete(role, id, tbl) ==
  LET targets == clientTargets(role, "DELETE", id, tbl) IN
  [table |-> IF targets = {} THEN tbl
             ELSE [other \in DOMAIN tbl \ {id} |-> tbl[other]],
   error |-> "", rows |-> targets]

\* ------------------------------------------------------------------------
\* The SMS subscription form (src/components/SMSAlerts.tsx)
\* ------------------------------------------------------------------------

\* Line 160: e.target.value.replace(/\D/g, "").slice(0, 10)
formPhoneInput(text) ==
  LET digits == SelectSeq(text, LAMBDA c : c \in Digits)
  IN  SubSeq(digits, 1, IF Len(digits) < 10 THEN Len(digits) ELSE 10)

\* A button that stays enabled while a request is under way.
formSubmitDisabledByLengthOnly(loading, phoneNumber) == Len(phoneNumber) # 10

\* Line 214: disabled={loading || phoneNumber.length !== 10}
formSubmitDisabled(loading, phoneNumber) == loading \/ Len(phoneNumber) # 10

\* Lines 43-48: the values of the magnitude buttons.
magnitudeOptions == {3, 4, 5, 6}

MissingNumberToast == "Please enter your mobile number"

RegisteredToast == "Alert registered successfully! Check your phone for confirmation."

FailedToast == "Failed to register for alerts"

\* Lines 76-96: what handleSubmit does with the settled invocation.  The
\* result names the toast shown and whether success is set and the reset timer
\* started; loading is cleared by the finally block in every case.
formAfterInvoke(outcome) ==
  IF outcome.kind = "rejected"
  THEN [toast |-> OrElse(outcome.message, "", FailedToast), success |-> FALSE]
  ELSE IF outcome.kind = "error"
  THEN [toast |-> OrElse(outcome.message, "", FailedToast), success |-> FALSE]
  ELSE IF outcome.kind = "null data"
  THEN [toast |-> NullTypeError, success |-> FALSE]
  ELSE IF outcome.kind = "error body"
  THEN [toast |-> outcome.message[1], success |-> FALSE]
  ELSE [toast |-> RegisteredToast, success |-> TRUE]

\* ---- sampled inputs ------------------------------------------------------

\* Texts typed or pasted into the phone field.
FormTexts ==
  {<<>>,
   <<"9", "8", "7", "6", "5", " ", "4", "3", "2", "1", "0">>,
   <<"9", "1", "2", "-", "2", "2", "2", "2", "2", "3", "4", "5", "6">>,
   <<"9", "8", "7", "a">>}

\* How an invocation of send-sms-alert settles for the form: the promise
\* rejects, invoke returns an error (a non-2xx answer), a 2xx body carries an
\* error field, no body at all, or the registration went through.
FormOutcomes ==
  {[kind |-> "rejected", message |-> <<"Failed to fetch">>],
   [kind |-> "rejected", message |-> <<>>],
   [kind |-> "error", message |-> <<"Edge Function returned a non-2xx status code">>],
   [kind |-> "error body", message |-> <<InvalidPhoneMessage>>],
   [kind |-> "null data", message |-> <<>>],
   [kind |-> "ok", message |-> <<>>]}
\* ------------------------------------------------------------------------
\* fetch-earthquakes (supabase/functions/fetch-earthquakes/index.ts)
\* ------------------------------------------------------------------------

\* ---- numbers that may be NaN: <<>> is NaN, <<n>> the number n ---------------

NaN == <<>>

\* a >= b as JavaScript compares: false as soon as one side is NaN.
NumGe(a, b) == a # NaN /\ b # NaN /\ a[1] >= b[1]

\* Math.max(a, b): NaN as soon as one side is NaN.
MathMax(a, b) ==
  IF a = NaN \/ b = NaN THEN NaN ELSE IF a[1] >= b[1] THEN a ELSE b

DigitValue(c) == CHOOSE d \in 0..9 : ToString(d) = c

RECURSIVE LeadingDigits(_)
LeadingDigits(s) ==
  IF s = <<>> THEN <<>>
  ELSE IF Head(s) \notin Digits THEN <<>>
  ELSE <<Head(s)>> \o LeadingDigits(Tail(s))

RECURSIVE DigitsValue(_, _)
DigitsValue(ds, acc) ==
  IF ds = <<>> THEN acc ELSE DigitsValue(Tail(ds), acc * 10 + DigitValue(Head(ds)))

RECURSIVE TrimStart(_)
TrimStart(s) ==
  IF s = <<>> THEN s
  ELSE IF Head(s) \in Whitespace THEN TrimStart(Tail(s)) ELSE s

Unsigned(t) == IF t # <<>> /\ Head(t) \in {"-", "+"} THEN Tail(t) ELSE t

SignOf(t) == IF t # <<>> /\ Head(t) = "-" THEN -1 ELSE 1

\* parseInt(text): leading whitespace, a sign, then the longest run of digits;
\* NaN when there is no digit.
parseInt(text) ==
  LET t == TrimStart(text)
      ds == LeadingDigits(Unsigned(t))
  IN  IF ds = <<>> THEN NaN ELSE <<SignOf(t) * DigitsValue(ds, 0)>>

\* parseFloat(text), in hundredths: digits, then possibly a point and digits
\* (the first two fraction digits are kept).
parseFloat(text) ==
  LET t == TrimStart(text)
      u == Unsigned(t)
      ip == LeadingDigits(u)
      rest == SubSeq(u, Len(ip) + 1, Len(u))
      fp == IF rest # <<>> /\ Head(rest) = "." THEN LeadingDigits(Tail(rest))
            ELSE <<>>
      hundredths == SubSeq(fp \o <<"0", "0">>, 1, 2)
  IN  IF ip = <<>> /\ fp = <<>> THEN NaN
      ELSE <<SignOf(t) * (DigitsValue(ip, 0) * 100 + DigitsValue(hundredths, 0))>>

RECURSIVE Numeral(_)
\* n.toString() for n >= 0, as a sequence of characters.
Numeral(n) ==
  IF n < 10 THEN <<ToString(n)>> ELSE Numeral(n \div 10) \o <<ToString(n % 10)>>

\* ---- dates ---------------------------------------------------------------

\* A time is [y, md, ms]: year, month * 100 + day, millisecond of the day.
\* new Date(text) is an Invalid Date when the day is 00.
ValidDate(t) == t.md % 100 >= 1

\* new Date(t).getFullYear(); NaN for an Invalid Date.
getFullYear(t) == IF ValidDate(t) THEN <<t.y>> ELSE NaN

\* new Date(a).getTime() > new Date(b).getTime()
TimeAfter(a, b) ==
  \/ a.y > b.y
  \/ a.y = b.y /\ a.md > b.md
  \/ a.y = b.y /\ a.md = b.md /\ a.ms > b.ms

\* A toFixed that cuts the digits off.
toFixedTruncating(num, den, tieUp) == num \div den

\* x.toFixed(d) of the non-negative number num / den, counted in units of the
\* last digit kept.  A value halfway between two numerals falls to the side its
\* binary expansion lies on: tieUp.
toFixed(num, den, tieUp) ==
  LET q == num \div den
      r == num % den
  IN  IF 2 * r > den THEN q + 1
      ELSE IF 2 * r < den THEN q
      ELSE IF tieUp THEN q + 1 ELSE q
\* The built-in catalogue (fetch-earthquakes/index.ts lines 22-68), in source order.
historicalEarthquakes ==
  <<
     [id |-> "hist-1505", magnitude |-> 800, location |-> "Lo Mustang Region, Nepal-India Border",
      time |-> [y |-> 1505, md |-> 606, ms |-> 0], depth |-> 3000,
      coordinates |-> [lat |-> 2950000, lng |-> 8350000],
      state |-> "Uttarakhand", region |-> "North India", isHistorical |-> <<TRUE>>],
     [id |-> "hist-1555", magnitude |-> 760, location |-> "Kashmir Region",
      time |-> [y |-> 1555, md |-> 901, ms |-> 0], depth |-> 2500,
      coordinates |-> [lat |-> 3400000, lng |-> 7450000],
      state |-> "Jammu & Kashmir", region |-> "North India", isHistorical |-> <<TRUE>>],
     [id |-> "hist-1618", magnitude |-> 680, location |-> "Bombay (Mumbai) Region",
      time |-> [y |-> 1618, md |-> 526, ms |-> 0], depth |-> 2000,
      coordinates |-> [lat |-> 1900000, lng |-> 7280000],
      state |-> "Maharashtra", region |-> "West India", isHistorical |-> <<TRUE>>],
     [id |-> "hist-1668", magnitude |-> 760, location |-> "Samaji, Kutch Region",
      time |-> [y |-> 1668, md |-> 500, ms |-> 0], depth |-> 2500,
      coordinates |-> [lat |-> 2330000, lng |-> 6990000],
      state |-> "Gujarat", region |-> "West India", isHistorical |-> <<TRUE>>],
     [id |-> "hist-1720", magnitude |-> 650, location |-> "Delhi Region",
      time |-> [y |-> 1720, md |-> 715, ms |-> 0], depth |-> 1500,
      coordinates |-> [lat |-> 2860000, lng |-> 7720000],
      state |-> "Delhi NCR", region |-> "North India", isHistorical |-> <<TRUE>>],
     [id |-> "hist-1737", magnitude |-> 700, location |-> "Calcutta (Kolkata) Region",
      time |-> [y |-> 1737, md |-> 1011, ms |-> 0], depth |-> 3000,
      coordinates |-> [lat |-> 2250000, lng |-> 8830000],
      state |-> "West Bengal", region |-> "East India", isHistorical |-> <<TRUE>>],
     [id |-> "hist-1762", magnitude |-> 750, location |-> "Arakan Coast, Bay of Bengal",
      time |-> [y |-> 1762, md |-> 402, ms |-> 0], depth |-> 3500,
      coordinates |-> [lat |-> 2200000, lng |-> 9150000],
      state |-> "Tripura", region |-> "North-East India", isHistorical |-> <<TRUE>>],
     [id |-> "hist-1803", magnitude |-> 750, location |-> "Kumaon-Garhwal Region",
      time |-> [y |-> 1803, md |-> 901, ms |-> 0], depth |-> 2000,
      coordinates |-> [lat |-> 3000000, lng |-> 7950000],
      state |-> "Uttarakhand", region |-> "North India", isHistorical |-> <<TRUE>>],
     [id |-> "hist-1819", magnitude |-> 770, location |-> "Allah Bund, Kutch",
      time |-> [y |-> 1819, md |-> 616, ms |-> 0], depth |-> 2500,
      coordinates |-> [lat |-> 2360000, lng |-> 6960000],
      state |-> "Gujarat", region |-> "West India", isHistorical |-> <<TRUE>>],
     [id |-> "hist-1828", magnitude |-> 680, location |-> "Kashmir Valley",
      time |-> [y |-> 1828, md |-> 626, ms |-> 0], depth |-> 2000,
      coordinates |-> [lat |-> 3410000, lng |-> 7480000],
      state |-> "Jammu & Kashmir", region |-> "North India", isHistorical |-> <<TRUE>>],
     [id |-> "hist-1833", magnitude |-> 760, location |-> "Bihar-Nepal Border",
      time |-> [y |-> 1833, md |-> 826, ms |-> 0], depth |-> 3500,
      coordinates |-> [lat |-> 2770000, lng |-> 8550000],
      state |-> "Bihar", region |-> "East India", isHistorical |-> <<TRUE>>],
     [id |-> "hist-1842", magnitude |-> 650, location |-> "Jhelum Valley, Kashmir",
      time |-> [y |-> 1842, md |-> 219, ms |-> 0], depth |-> 1500,
      coordinates |-> [lat |-> 3440000, lng |-> 7370000],
      state |-> "Jammu & Kashmir", region |-> "North India", isHistorical |-> <<TRUE>>],
     [id |-> "hist-1845", magnitude |-> 630, location |-> "Sind Region",
      time |-> [y |-> 1845, md |-> 419, ms |-> 0], depth |-> 2000,
      coordinates |-> [lat |-> 2550000, lng |-> 6850000],
      state |-> "Gujarat", region |-> "West India", isHistorical |-> <<TRUE>>],
     [id |-> "hist-1863", magnitude |-> 670, location |-> "Kangra Region",
      time |-> [y |-> 1863, md |-> 330, ms |-> 0], depth |-> 2000,
      coordinates |-> [lat |-> 3210000, lng |-> 7630000],
      state |-> "Himachal Pradesh", region |-> "North India", isHistorical |-> <<TRUE>>],
     [id |-> "hist-1869", magnitude |-> 740, location |-> "Cachar, Assam",
      time |-> [y |-> 1869, md |-> 110, ms |-> 0], depth |-> 3000,
      coordinates |-> [lat |-> 2450000, lng |-> 9250000],
      state |-> "Assam", region |-> "North-East India", isHistorical |-> <<TRUE>>],
     [id |-> "hist-1885", magnitude |-> 700, location |-> "Srinagar, Kashmir",
      time |-> [y |-> 1885, md |-> 530, ms |-> 0], depth |-> 2500,
      coordinates |-> [lat |-> 3410000, lng |-> 7480000],
      state |-> "Jammu & Kashmir", region |-> "North India", isHistorical |-> <<TRUE>>],
     [id |-> "hist-1897", magnitude |-> 810, location |-> "Shillong Plateau, Assam",
      time |-> [y |-> 1897, md |-> 612, ms |-> 0], depth |-> 3500,
      coordinates |-> [lat |-> 2590000, lng |-> 9100000],
      state |-> "Meghalaya", region |-> "North-East India", isHistorical |-> <<TRUE>>],
     [id |-> "hist-1905", magnitude |-> 780, location |-> "Kangra, Himachal Pradesh",
      time |-> [y |-> 1905, md |-> 404, ms |-> 22800000], depth |-> 2000,
      coordinates |-> [lat |-> 3230000, lng |-> 7630000],
      state |-> "Himachal Pradesh", region |-> "North India", isHistorical |-> <<TRUE>>],
     [id |-> "hist-1918", magnitude |-> 760, location |-> "Srimangal, Assam",
      time |-> [y |-> 1918, md |-> 708, ms |-> 0], depth |-> 3000,
      coordinates |-> [lat |-> 2450000, lng |-> 9180000],
      state |-> "Assam", region |-> "North-East India", isHistorical |-> <<TRUE>>],
     [id |-> "hist-1930", magnitude |-> 710, location |-> "Dhubri, Assam",
      time |-> [y |-> 1930, md |-> 702, ms |-> 0], depth |-> 2500,
      coordinates |-> [lat |-> 2600000, lng |-> 9000000],
      state |-> "Assam", region |-> "North-East India", isHistorical |-> <<TRUE>>],
     [id |-> "hist-1934", magnitude |-> 810, location |-> "Bihar-Nepal Border",
      time |-> [y |-> 1934, md |-> 115, ms |-> 31380000], depth |-> 3300,
      coordinates |-> [lat |-> 2650000, lng |-> 8650000],
      state |-> "Bihar", region |-> "East India", isHistorical |-> <<TRUE>>],
     [id |-> "hist-1935", magnitude |-> 770, location |-> "Quetta, Baluchistan",
      time |-> [y |-> 1935, md |-> 530, ms |-> 0], depth |-> 2500,
      coordinates |-> [lat |-> 2960000, lng |-> 6640000],
      state |-> "India", region |-> "West India", isHistorical |-> <<TRUE>>],
     [id |-> "hist-1941", magnitude |-> 810, location |-> "Andaman Islands",
      time |-> [y |-> 1941, md |-> 626, ms |-> 0], depth |-> 3500,
      coordinates |-> [lat |-> 1250000, lng |-> 9250000],
      state |-> "Andaman & Nicobar Islands", region |-> "Andaman Sea", isHistorical |-> <<TRUE>>],
     [id |-> "hist-1943", magnitude |-> 720, location |-> "Assam",
      time |-> [y |-> 1943, md |-> 1023, ms |-> 0], depth |-> 3000,
      coordinates |-> [lat |-> 2680000, lng |-> 9400000],
      state |-> "Assam", region |-> "North-East India", isHistorical |-> <<TRUE>>],
     [id |-> "hist-1950", magnitude |-> 860, location |-> "Assam-Tibet Border",
      time |-> [y |-> 1950, md |-> 815, ms |-> 50940000], depth |-> 3500,
      coordinates |-> [lat |-> 2850000, lng |-> 9650000],
      state |-> "Arunachal Pradesh", region |-> "North-East India", isHistorical |-> <<TRUE>>],
     [id |-> "hist-1956", magnitude |-> 670, location |-> "Anjar, Gujarat",
      time |-> [y |-> 1956, md |-> 721, ms |-> 0], depth |-> 2000,
      coordinates |-> [lat |-> 2310000, lng |-> 7000000],
      state |-> "Gujarat", region |-> "West India", isHistorical |-> <<TRUE>>],
     [id |-> "hist-1966", magnitude |-> 580, location |-> "Koyna Dam, Maharashtra",
      time |-> [y |-> 1966, md |-> 1210, ms |-> 0], depth |-> 1500,
      coordinates |-> [lat |-> 1740000, lng |-> 7370000],
      state |-> "Maharashtra", region |-> "West India", isHistorical |-> <<TRUE>>],
     [id |-> "hist-1967", magnitude |-> 630, location |-> "Koyna, Maharashtra",
      time |-> [y |-> 1967, md |-> 1210, ms |-> 82260000], depth |-> 1000,
      coordinates |-> [lat |-> 1740000, lng |-> 7370000],
      state |-> "Maharashtra", region |-> "West India", isHistorical |-> <<TRUE>>],
     [id |-> "hist-1975", magnitude |-> 670, location |-> "Kinnaur, Himachal Pradesh",
      time |-> [y |-> 1975, md |-> 119, ms |-> 0], depth |-> 2500,
      coordinates |-> [lat |-> 3150000, lng |-> 7850000],
      state |-> "Himachal Pradesh", region |-> "North India", isHistorical |-> <<TRUE>>],
     [id |-> "hist-1988", magnitude |-> 690, location |-> "Bihar-Nepal Border",
      time |-> [y |-> 1988, md |-> 821, ms |-> 16740000], depth |-> 6500,
      coordinates |-> [lat |-> 2670000, lng |-> 8660000],
      state |-> "Bihar", region |-> "East India", isHistorical |-> <<TRUE>>],
     [id |-> "hist-1991", magnitude |-> 680, location |-> "Uttarkashi, Uttarakhand",
      time |-> [y |-> 1991, md |-> 1020, ms |-> 10380000], depth |-> 1200,
      coordinates |-> [lat |-> 3080000, lng |-> 7880000],
      state |-> "Uttarakhand", region |-> "North India", isHistorical |-> <<TRUE>>],
     [id |-> "hist-1993", magnitude |-> 620, location |-> "Killari (Latur), Maharashtra",
      time |-> [y |-> 1993, md |-> 930, ms |-> 180000], depth |-> 1000,
      coordinates |-> [lat |-> 1810000, lng |-> 7650000],
      state |-> "Maharashtra", region |-> "West India", isHistorical |-> <<TRUE>>],
     [id |-> "hist-1997", magnitude |-> 600, location |-> "Jabalpur, Madhya Pradesh",
      time |-> [y |-> 1997, md |-> 522, ms |-> 3060000], depth |-> 3500,
      coordinates |-> [lat |-> 2310000, lng |-> 8000000],
      state |-> "Madhya Pradesh", region |-> "Central India", isHistorical |-> <<TRUE>>],
     [id |-> "hist-1999", magnitude |-> 660, location |-> "Chamoli, Uttarakhand",
      time |-> [y |-> 1999, md |-> 329, ms |-> 2100000], depth |-> 1500,
      coordinates |-> [lat |-> 3040000, lng |-> 7940000],
      state |-> "Uttarakhand", region |-> "North India", isHistorical |-> <<TRUE>>],
     [id |-> "hist-2001", magnitude |-> 770, location |-> "Bhuj, Gujarat",
      time |-> [y |-> 2001, md |-> 126, ms |-> 11760000], depth |-> 1600,
      coordinates |-> [lat |-> 2340000, lng |-> 7020000],
      state |-> "Gujarat", region |-> "West India", isHistorical |-> <<TRUE>>],
     [id |-> "hist-2004", magnitude |-> 910, location |-> "Sumatra-Andaman",
      time |-> [y |-> 2004, md |-> 1226, ms |-> 3480000], depth |-> 3000,
      coordinates |-> [lat |-> 1300000, lng |-> 9300000],
      state |-> "Andaman & Nicobar Islands", region |-> "Andaman Sea", isHistorical |-> <<TRUE>>],
     [id |-> "hist-2005", magnitude |-> 760, location |-> "Kashmir",
      time |-> [y |-> 2005, md |-> 1008, ms |-> 13800000], depth |-> 2600,
      coordinates |-> [lat |-> 3450000, lng |-> 7360000],
      state |-> "Jammu & Kashmir", region |-> "North India", isHistorical |-> <<TRUE>>],
     [id |-> "hist-2011", magnitude |-> 690, location |-> "Sikkim",
      time |-> [y |-> 2011, md |-> 918, ms |-> 45600000], depth |-> 5000,
      coordinates |-> [lat |-> 2770000, lng |-> 8820000],
      state |-> "Sikkim", region |-> "North-East India", isHistorical |-> <<TRUE>>],
     [id |-> "hist-2015", magnitude |-> 780, location |-> "Nepal-India Border",
      time |-> [y |-> 2015, md |-> 425, ms |-> 22260000], depth |-> 1500,
      coordinates |-> [lat |-> 2820000, lng |-> 8470000],
      state |-> "Bihar", region |-> "East India", isHistorical |-> <<TRUE>>],
     [id |-> "hist-2016", magnitude |-> 670, location |-> "Manipur",
      time |-> [y |-> 2016, md |-> 104, ms |-> 16500000], depth |-> 5500,
      coordinates |-> [lat |-> 2480000, lng |-> 9370000],
      state |-> "Manipur", region |-> "North-East India", isHistorical |-> <<TRUE>>]
  >>

\* ---- the handler (lines 70-244) ---------------------------------------------

\* Lines 78-82.  A query parameter is <<>> when absent, else <<text>>.
fetchParams(query, nowYear) ==
  [dataType |-> OrElse(query.type, "", "recent"),
   startYear |-> parseInt(OrElse(query.startYear, <<>>, <<"1", "9", "0", "0">>)),
   endYear |-> parseInt(OrElse(query.endYear, <<>>, Numeral(nowYear))),
   minMagnitude |-> parseFloat(OrElse(query.minMagnitude, <<>>, <<"0">>))]

\* Lines 91-96: what the USGS query is built from.
fetchUsgsCall(p) ==
  [starttime |-> IF p.dataType = "recent"
                 THEN [from |-> "30 days before now", year |-> NaN]
                 ELSE [from |-> "1 January", year |-> MathMax(<<1900>>, p.startYear)],
   endtime |-> [to |-> "31 December", year |-> p.endYear],
   minmagnitude |-> MathMax(p.minMagnitude,
                            IF p.dataType = "all" THEN <<450>> ELSE <<0>>),
   limit |-> 2000]

\* The state lookup of this file: the same 29 rules as in the seed job.
fetchGetIndianState(lat, lng) == StateFrom(1, lat, lng)

\* Lines 161-177: one feature to one earthquake.
fetchMapFeature(feature) ==
  LET lng == feature.geometry.coordinates[1]
      lat == feature.geometry.coordinates[2]
      depth == feature.geometry.coordinates[3]
      state == fetchGetIndianState(lat, lng)
      region == fetchGetRegion(state)
  IN  [id |-> feature.id,
       magnitude |-> OrElse(feature.properties.mag, 0, 0),
       location |-> OrElse(feature.properties.place, "", state \o ", India"),
       time |-> feature.properties.time,
       depth |-> OrElse(depth, 0, 0),
       coordinates |-> [lat |-> lat, lng |-> lng],
       state |-> state,
       region |-> region,
       isHistorical |-> <<feature.properties.time.y < 2000>>]

fetchUsgsEarthquakes(features) ==
  [k \in DOMAIN features |-> fetchMapFeature(features[k])]

\* Lines 183-186.
fetchFilteredHistorical(p) ==
  SelectSeq(historicalEarthquakes,
            LAMBDA eq : /\ NumGe(getFullYear(eq.time), p.startYear)
                        /\ NumGe(p.endYear, getFullYear(eq.time))
                        /\ NumGe(<<eq.magnitude>>, p.minMagnitude))

\* A merge that does not look at the ids already in the list.
fetchNewHistoricalKeepingAll(p, allEarthquakes) == fetchFilteredHistorical(p)

\* Lines 189-190.
fetchNewHistorical(p, allEarthquakes) ==
  LET existingIds == {allEarthquakes[k].id : k \in DOMAIN allEarthquakes}
  IN  SelectSeq(fetchFilteredHistorical(p), LAMBDA eq : eq.id \notin existingIds)

RECURSIVE InsertByTime(_, _)
\* e is put behind every element that is not older than e.
InsertByTime(sorted, e) ==
  IF sorted = <<>> THEN <<e>>
  ELSE IF TimeAfter(e.time, Head(sorted).time) THEN <<e>> \o sorted
  ELSE <<Head(sorted)>> \o InsertByTime(Tail(sorted), e)

RECURSIVE SortFrom(_, _, _)
SortFrom(list, k, sorted) ==
  IF k > Len(list) THEN sorted
  ELSE SortFrom(list, k + 1, InsertByTime(sorted, list[k]))

\* A handler that leaves the list as it was put together.
fetchSortSkipped(list) == list

\* Line 198: sort((a, b) => time(b) - time(a)), a stable sort, newest first.
fetchSort(list) == SortFrom(list, 1, <<>>)

RECURSIVE SumMagnitude(_, _)
SumMagnitude(list, k) ==
  IF k > Len(list) THEN 0 ELSE list[k].magnitude + SumMagnitude(list, k + 1)

MaxOf(S) == CHOOSE m \in S : \A x \in S : x <= m

CountWhere(list, Test(_)) == Cardinality({k \in DOMAIN list : Test(list[k])})

\* `${Math.floor(year / 10) * 10}s`
DecadeKey(time) == ToString((time.y \div 10) * 10) \o "s"

\* Statistics that tell which regions and decades occur, not how often, and
\* take the magnitude of the first entry for the largest.
fetchStatsNotCounting(list, tieUp) ==
  [total |-> Len(list),
   avgMagnitude |->
     IF Len(list) > 0
     THEN [type |-> "string",
           tenths |-> toFixed(SumMagnitude(list, 1), 10 * Len(list), tieUp)]
     ELSE [type |-> "number", tenths |-> 0],
   maxMagnitude |-> IF Len(list) > 0 THEN list[1].magnitude ELSE 0,
   byRegion |-> [r \in {list[k].region : k \in DOMAIN list} |-> 1],
   byDecade |-> [d \in {DecadeKey(list[k].time) : k \in DOMAIN list} |-> 1]]

\* Lines 201-217.  avgMagnitude is a string with one decimal (kept in tenths)
\* or, for an empty list, the number 0.
fetchStats(list, tieUp) ==
  [total |-> Len(list),
   avgMagnitude |->
     IF Len(list) > 0
     THEN [type |-> "string",
           tenths |-> toFixed(SumMagnitude(list, 1), 10 * Len(list), tieUp)]
     ELSE [type |-> "number", tenths |-> 0],
   maxMagnitude |->
     IF Len(list) > 0 THEN MaxOf({list[k].magnitude : k \in DOMAIN list}) ELSE 0,
   byRegion |-> [r \in {list[k].region : k \in DOMAIN list} |->
                   CountWhere(list, LAMBDA eq : eq.region = r)],
   byDecade |-> [d \in {DecadeKey(list[k].time) : k \in DOMAIN list} |->
                   CountWhere(list, LAMBDA eq : DecadeKey(eq.time) = d)]]

\* A catch that answers with status 200.
fetchCatchOk(message) == [status |-> 200, body |-> [error |-> message]]

\* Lines 234-243: the catch.
fetchCatch(message) == ErrorResponse(500, message)

\* A handler that adds a source field to its answer.
fetchFinishWithSource(p, usgsEarthquakes, tieUp) ==
  [status |-> 200,
   body |-> [earthquakes |-> fetchSort(usgsEarthquakes),
             count |-> Len(usgsEarthquakes),
             stats |-> fetchStats(fetchSort(usgsEarthquakes), tieUp),
             dataType |-> p.dataType,
             dateRange |-> [startYear |-> p.startYear, endYear |-> p.endYear],
             source |-> "USGS"]]

\* Lines 180-233: from the USGS part of the list to the response.
fetchFinish(p, usgsEarthquakes, tieUp) ==
  LET allEarthquakes ==
        fetchSort(IF p.dataType \in {"historical", "all"}
                  THEN usgsEarthquakes \o fetchNewHistorical(p, usgsEarthquakes)
                  ELSE usgsEarthquakes)
  IN  [status |-> 200,
       body |-> [earthquakes |-> allEarthquakes,
                 count |-> Len(allEarthquakes),
                 stats |-> fetchStats(allEarthquakes, tieUp),
                 dataType |-> p.dataType,
                 dateRange |-> [startYear |-> p.startYear, endYear |-> p.endYear]]]

\* Lines 71-103: everything before the outbound fetch.
fetchBefore(req, nowYear, tieUp) ==
  IF req.method = "OPTIONS" THEN [kind |-> "respond", resp |-> PreflightResponse]
  ELSE LET p == fetchParams(req.query, nowYear) IN
    IF p.dataType \in {"recent", "all"}
    THEN [kind |-> "call", call |-> fetchUsgsCall(p)]
    ELSE [kind |-> "respond", resp |-> fetchFinish(p, <<>>, tieUp)]

\* A handler that falls back on the built-in records when USGS refuses.
fetchAfterFallingBack(p, usgs, tieUp) ==
  IF usgs.kind = "network error" THEN fetchCatch("error sending request")
  ELSE IF usgs.kind = "not json" THEN fetchCatch(JsonSyntaxError)
  ELSE IF usgs.kind \in {"not ok", "no features"} THEN fetchFinish(p, <<>>, tieUp)
  ELSE IF usgs.kind = "bad feature" THEN fetchCatch(NullTypeError)
  ELSE fetchFinish(p, fetchUsgsEarthquakes(usgs.features), tieUp)

\* Lines 101-233: from the answer of USGS to the response.
fetchAfter(p, usgs, tieUp) ==
  IF usgs.kind = "network error" THEN fetchCatch("error sending request")
  ELSE IF usgs.kind = "not ok"
  THEN fetchCatch("USGS API error: " \o ToString(usgs.status))
  ELSE IF usgs.kind = "not json" THEN fetchCatch(JsonSyntaxError)
  ELSE IF usgs.kind = "no features" THEN fetchFinish(p, <<>>, tieUp)
  ELSE IF usgs.kind = "bad feature" THEN fetchCatch(NullTypeError)
  ELSE fetchFinish(p, fetchUsgsEarthquakes(usgs.features), tieUp)

\* ---- sampled inputs ------------------------------------------------------

\* The longest USGS answer sampled for fetch-earthquakes.
MaxFetchFeed == 2

YearTexts ==
  {<<>>, <<<<"1", "6", "0", "0">>>>, <<<<"1", "8", "0", "0">>>>,
   <<<<"1", "9", "5", "0">>>>, <<<<"a", "b">>>>}

EndYearTexts ==
  {<<>>, <<<<>>>>, <<<<"1", "8", "9", "9">>>>, <<<<" ", "2", "0", "2", "6", "x">>>>}

MagnitudeTexts == {<<>>, <<<<"7", ".", "5">>>>, <<<<"6">>>>, <<<<"x">>>>}

FetchQueries ==
  {[type |-> t, startYear |-> s, endYear |-> e, minMagnitude |-> m,
    state |-> x, region |-> x, limit |-> IF x = <<>> THEN <<>> ELSE <<"10">>] :
      t \in {<<>>, <<"">>, <<"recent">>, <<"historical">>, <<"all">>, <<"weekly">>},
      s \in YearTexts, e \in EndYearTexts, m \in MagnitudeTexts,
      x \in {<<>>, <<"Assam">>}}

FetchRequests ==
  {[method |-> "OPTIONS", query |-> q] :
     q \in {q \in FetchQueries : q.type = <<>> /\ q.startYear = <<>>
                                 /\ q.endYear = <<>> /\ q.minMagnitude = <<>>
                                 /\ q.state = <<>>}}
  \cup {[method |-> "GET", query |-> q] : q \in FetchQueries}

NoFeatures == <<>>

UsgsAnswers ==
  {[kind |-> "network error", status |-> 0, features |-> NoFeatures],
   [kind |-> "not ok", status |-> 400, features |-> NoFeatures],
   [kind |-> "not ok", status |-> 503, features |-> NoFeatures],
   [kind |-> "not json", status |-> 200, features |-> NoFeatures],
   [kind |-> "no features", status |-> 200, features |-> NoFeatures],
   [kind |-> "bad feature", status |-> 200, features |-> NoFeatures]}
  \cup {[kind |-> "ok", status |-> 200,
         features |-> [k \in 1..n |-> Feature(1, s + k)]] :
          n \in 0..MaxFetchFeed, s \in 0..4}
  \cup {[kind |-> "ok", status |-> 200,
         features |-> [k \in 1..n |->
                         IF k = 1 THEN [Feature(1, s + k) EXCEPT !.id = "hist-1991"]
                         ELSE Feature(1, s + k)]] :
          n \in 1..MaxFetchFeed, s \in 0..1}

\* ------------------------------------------------------------------------
\* Historical archive (part_001): filters and the CSV / JSON export
\* ------------------------------------------------------------------------
\* src/data/staticEarthquakes.ts lines 23-54, in source order.
staticEarthquakes ==
  <<
     [id |-> "eq-001", magnitude |-> 530, location |-> "26 km SE of Taki, India",
      time |-> [y |-> 2026, md |-> 227, ms |-> 28344828], depth |-> 980,
      coordinates |-> [lat |-> 2245130, lng |-> 8913940],
      state |-> "West Bengal", region |-> "East India", isHistorical |-> <<>>],
     [id |-> "eq-002", magnitude |-> 430, location |-> "20 km WNW of Naya Bazar, India",
      time |-> [y |-> 2026, md |-> 226, ms |-> 42731819], depth |-> 1000,
      coordinates |-> [lat |-> 2719640, lng |-> 8804550],
      state |-> "West Bengal", region |-> "East India", isHistorical |-> <<>>],
     [id |-> "eq-003", magnitude |-> 480, location |-> "9 km NNW of Naya Bazar, India",
      time |-> [y |-> 2026, md |-> 226, ms |-> 21845886], depth |-> 1000,
      coordinates |-> [lat |-> 2721070, lng |-> 8821460],
      state |-> "West Bengal", region |-> "East India", isHistorical |-> <<>>],
     [id |-> "eq-004", magnitude |-> 510, location |-> "Manipur-Myanmar Border Region",
      time |-> [y |-> 2026, md |-> 225, ms |-> 60709402], depth |-> 12970,
      coordinates |-> [lat |-> 2299900, lng |-> 9482680],
      state |-> "Manipur", region |-> "North-East India", isHistorical |-> <<>>],
     [id |-> "eq-005", magnitude |-> 480, location |-> "Arunachal Pradesh-Myanmar Border",
      time |-> [y |-> 2026, md |-> 225, ms |-> 11754865], depth |-> 1000,
      coordinates |-> [lat |-> 2467970, lng |-> 9742430],
      state |-> "Arunachal Pradesh", region |-> "North-East India", isHistorical |-> <<>>],
     [id |-> "eq-006", magnitude |-> 470, location |-> "115 km W of Bamboo Flat, Andaman Islands",
      time |-> [y |-> 2026, md |-> 223, ms |-> 18131341], depth |-> 1000,
      coordinates |-> [lat |-> 1168180, lng |-> 9165730],
      state |-> "Andaman & Nicobar", region |-> "Andaman & Nicobar", isHistorical |-> <<>>],
     [id |-> "eq-007", magnitude |-> 340, location |-> "15 km NE of Mardan, Jammu & Kashmir Region",
      time |-> [y |-> 2026, md |-> 221, ms |-> 16081587], depth |-> 1000,
      coordinates |-> [lat |-> 3431220, lng |-> 7215480],
      state |-> "Jammu & Kashmir", region |-> "North India", isHistorical |-> <<>>],
     [id |-> "eq-008", magnitude |-> 440, location |-> "Ladakh Region",
      time |-> [y |-> 2026, md |-> 219, ms |-> 16838634], depth |-> 1000,
      coordinates |-> [lat |-> 3363650, lng |-> 8168970],
      state |-> "Ladakh", region |-> "North India", isHistorical |-> <<>>],
     [id |-> "eq-009", magnitude |-> 440, location |-> "Mizoram-Myanmar Border Region",
      time |-> [y |-> 2026, md |-> 216, ms |-> 82247687], depth |-> 4190,
      coordinates |-> [lat |-> 2047790, lng |-> 9391340],
      state |-> "Mizoram", region |-> "North-East India", isHistorical |-> <<>>],
     [id |-> "eq-010", magnitude |-> 430, location |-> "Ladakh Region",
      time |-> [y |-> 2026, md |-> 211, ms |-> 15210865], depth |-> 1000,
      coordinates |-> [lat |-> 3287340, lng |-> 8505490],
      state |-> "Ladakh", region |-> "North India", isHistorical |-> <<>>],
     [id |-> "eq-011", magnitude |-> 460, location |-> "17 km NW of Gyalshing, Sikkim",
      time |-> [y |-> 2026, md |-> 207, ms |-> 47124295], depth |-> 1000,
      coordinates |-> [lat |-> 2737630, lng |-> 8811430],
      state |-> "Sikkim", region |-> "East India", isHistorical |-> <<>>],
     [id |-> "eq-012", magnitude |-> 520, location |-> "Nagaland-Myanmar Border Region",
      time |-> [y |-> 2026, md |-> 206, ms |-> 1986410], depth |-> 1000,
      coordinates |-> [lat |-> 2351100, lng |-> 9494780],
      state |-> "Nagaland", region |-> "North-East India", isHistorical |-> <<>>],
     [id |-> "eq-013", magnitude |-> 440, location |-> "14 km NW of Naya Bazar, West Bengal",
      time |-> [y |-> 2026, md |-> 205, ms |-> 75042819], depth |-> 1000,
      coordinates |-> [lat |-> 2721120, lng |-> 8812010],
      state |-> "West Bengal", region |-> "East India", isHistorical |-> <<>>],
     [id |-> "eq-014", magnitude |-> 460, location |-> "13 km WNW of Gyalshing, Sikkim",
      time |-> [y |-> 2026, md |-> 205, ms |-> 70768477], depth |-> 1000,
      coordinates |-> [lat |-> 2732750, lng |-> 8812790],
      state |-> "Sikkim", region |-> "East India", isHistorical |-> <<>>],
     [id |-> "eq-015", magnitude |-> 450, location |-> "119 km E of Wangjing, Manipur",
      time |-> [y |-> 2026, md |-> 204, ms |-> 67184492], depth |-> 13240,
      coordinates |-> [lat |-> 2476250, lng |-> 9522480],
      state |-> "Manipur", region |-> "North-East India", isHistorical |-> <<>>],
     [id |-> "eq-016", magnitude |-> 490, location |-> "Ladakh Region",
      time |-> [y |-> 2026, md |-> 204, ms |-> 23167627], depth |-> 1000,
      coordinates |-> [lat |-> 3300960, lng |-> 8327440],
      state |-> "Ladakh", region |-> "North India", isHistorical |-> <<>>],
     [id |-> "eq-017", magnitude |-> 420, location |-> "18 km W of Dhekiajuli, Assam",
      time |-> [y |-> 2026, md |-> 204, ms |-> 12449644], depth |-> 1000,
      coordinates |-> [lat |-> 2668600, lng |-> 9229560],
      state |-> "Assam", region |-> "North-East India", isHistorical |-> <<>>],
     [id |-> "eq-018", magnitude |-> 580, location |-> "Mizoram-Myanmar Border Region",
      time |-> [y |-> 2026, md |-> 203, ms |-> 56041535], depth |-> 5900,
      coordinates |-> [lat |-> 2043680, lng |-> 9394660],
      state |-> "Mizoram", region |-> "North-East India", isHistorical |-> <<>>],
     [id |-> "eq-019", magnitude |-> 480, location |-> "15 km WNW of Tsrar Sharif, J&K",
      time |-> [y |-> 2026, md |-> 202, ms |-> 353083], depth |-> 1000,
      coordinates |-> [lat |-> 3393890, lng |-> 7462270],
      state |-> "Jammu & Kashmir", region |-> "North India", isHistorical |-> <<>>],
     [id |-> "eq-020", magnitude |-> 450, location |-> "Andaman Islands Region",
      time |-> [y |-> 2026, md |-> 201, ms |-> 79262450], depth |-> 10350,
      coordinates |-> [lat |-> 753470, lng |-> 9413980],
      state |-> "Andaman & Nicobar", region |-> "Andaman & Nicobar", isHistorical |-> <<>>],
     [id |-> "eq-021", magnitude |-> 440, location |-> "Jammu & Kashmir Region",
      time |-> [y |-> 2026, md |-> 201, ms |-> 70569064], depth |-> 1000,
      coordinates |-> [lat |-> 3445350, lng |-> 7057760],
      state |-> "Jammu & Kashmir", region |-> "North India", isHistorical |-> <<>>],
     [id |-> "eq-022", magnitude |-> 680, location |-> "Uttarkashi, Uttarakhand",
      time |-> [y |-> 1991, md |-> 1020, ms |-> 10396000], depth |-> 1200,
      coordinates |-> [lat |-> 3078000, lng |-> 7877000],
      state |-> "Uttarakhand", region |-> "North India", isHistorical |-> <<TRUE>>],
     [id |-> "eq-023", magnitude |-> 660, location |-> "Chamoli, Uttarakhand",
      time |-> [y |-> 1999, md |-> 329, ms |-> 2113000], depth |-> 1500,
      coordinates |-> [lat |-> 3041000, lng |-> 7942000],
      state |-> "Uttarakhand", region |-> "North India", isHistorical |-> <<TRUE>>],
     [id |-> "eq-024", magnitude |-> 770, location |-> "Bhuj, Gujarat",
      time |-> [y |-> 2001, md |-> 126, ms |-> 11801000], depth |-> 2360,
      coordinates |-> [lat |-> 2342000, lng |-> 7023000],
      state |-> "Gujarat", region |-> "West India", isHistorical |-> <<TRUE>>],
     [id |-> "eq-025", magnitude |-> 680, location |-> "Kashmir, J&K",
      time |-> [y |-> 2005, md |-> 1008, ms |-> 13840000], depth |-> 2600,
      coordinates |-> [lat |-> 3453000, lng |-> 7358000],
      state |-> "Jammu & Kashmir", region |-> "North India", isHistorical |-> <<TRUE>>],
     [id |-> "eq-026", magnitude |-> 670, location |-> "Imphal, Manipur",
      time |-> [y |-> 2016, md |-> 104, ms |-> 14700000], depth |-> 5500,
      coordinates |-> [lat |-> 2483000, lng |-> 9366000],
      state |-> "Manipur", region |-> "North-East India", isHistorical |-> <<TRUE>>],
     [id |-> "eq-027", magnitude |-> 690, location |-> "Sikkim-Nepal Border",
      time |-> [y |-> 2011, md |-> 918, ms |-> 45648000], depth |-> 2000,
      coordinates |-> [lat |-> 2773000, lng |-> 8806000],
      state |-> "Sikkim", region |-> "East India", isHistorical |-> <<TRUE>>],
     [id |-> "eq-028", magnitude |-> 670, location |-> "Doda, Jammu & Kashmir",
      time |-> [y |-> 2013, md |-> 201, ms |-> 48840000], depth |-> 1000,
      coordinates |-> [lat |-> 3302000, lng |-> 7601000],
      state |-> "Jammu & Kashmir", region |-> "North India", isHistorical |-> <<TRUE>>],
     [id |-> "eq-029", magnitude |-> 550, location |-> "Latur, Maharashtra",
      time |-> [y |-> 1993, md |-> 930, ms |-> 233000], depth |-> 1000,
      coordinates |-> [lat |-> 1807000, lng |-> 7662000],
      state |-> "Maharashtra", region |-> "West India", isHistorical |-> <<TRUE>>],
     [id |-> "eq-030", magnitude |-> 560, location |-> "Koyna, Maharashtra",
      time |-> [y |-> 1967, md |-> 1210, ms |-> 82284000], depth |-> 500,
      coordinates |-> [lat |-> 1737000, lng |-> 7375000],
      state |-> "Maharashtra", region |-> "West India", isHistorical |-> <<TRUE>>]
  >>

\* new Date(time).toISOString().split("T")[0]: the calendar day, <<year, month * 100 + day>>.
isoDate(time) == <<time.y, time.md>>

\* A numeral with `decimals` fraction digits, written without its point:
\* Fixed(53, 1) is the text "5.3".
Fixed(digits, decimals) == [digits |-> digits, decimals |-> decimals]

\* `"${location.replace(/"/g, '""')}"` (no sampled location holds a quote).
csvQuoted(location) == "\"" \o location \o "\""

\* Static variant, lines 20-25.
filteredEarthquakes(yearRange, minMagnitude) ==
  SelectSeq(staticEarthquakes,
            LAMBDA eq : /\ NumGe(getFullYear(eq.time), <<yearRange[1]>>)
                        /\ NumGe(<<yearRange[2]>>, getFullYear(eq.time))
                        /\ eq.magnitude >= minMagnitude)

NoStats == <<>>

\* Static variant, lines 27-44: null for an empty list, else the statistics.
filteredStats(eqs, tieUp) ==
  IF Len(eqs) = 0 THEN NoStats
  ELSE <<[total |-> Len(eqs),
          avgMagnitude |-> [type |-> "string",
                            tenths |-> toFixed(SumMagnitude(eqs, 1), 10 * Len(eqs), tieUp)],
          maxMagnitude |-> MaxOf({eqs[k].magnitude : k \in DOMAIN eqs}),
          byRegion |-> [r \in {eqs[k].region : k \in DOMAIN eqs} |->
                          CountWhere(eqs, LAMBDA eq : eq.region = r)],
          byDecade |-> [d \in {DecadeKey(eqs[k].time) : k \in DOMAIN eqs} |->
                          CountWhere(eqs, LAMBDA eq : DecadeKey(eq.time) = d)]]>>

CsvHeaders ==
  <<"Date", "Magnitude", "Location", "State", "Region", "Depth (km)", "Latitude",
    "Longitude">>

\* Lines 72-78 and 419-428: one earthquake to one CSV row.
csvRow(eq, tieUp) ==
  <<isoDate(eq.time),
    Fixed(toFixed(eq.magnitude, 10, tieUp), 1),
    csvQuoted(eq.location),
    eq.state,
    eq.region,
    Fixed(toFixed(eq.depth, 10, tieUp), 1),
    Fixed(toFixed(eq.coordinates.lat, UnitsPerDegree \div 10000, tieUp), 4),
    Fixed(toFixed(eq.coordinates.lng, UnitsPerDegree \div 10000, tieUp), 4)>>

NoDownload == [filename |-> "", type |-> "", content |-> <<>>]

\* exportToCSV of both variants (lines 69-81, 415-432): nothing for an empty
\* list, else the file handed to downloadFile: the header line and one line
\* for each earthquake.
exportToCSV(eqs, tieUp) ==
  IF Len(eqs) = 0 THEN NoDownload
  ELSE [filename |-> "india_earthquakes.csv", type |-> "text/csv",
        content |-> <<CsvHeaders>> \o [k \in DOMAIN eqs |-> csvRow(eqs[k], tieUp)]]

\* Lines 95-100 and 446-456: one earthquake to one JSON entry.  A JSON number is
\* written with the shortest digits that read back as the same number.
jsonEntry(eq, withHistorical) ==
  LET entry == [date |-> isoDate(eq.time),
                magnitude |-> eq.magnitude,
                location |-> eq.location,
                state |-> eq.state,
                region |-> eq.region,
                depth_km |-> eq.depth,
                latitude |-> eq.coordinates.lat,
                longitude |-> eq.coordinates.lng]
  IN  IF withHistorical
      THEN [f \in DOMAIN entry \cup {"isHistorical"} |->
              IF f = "isHistorical" THEN OrElse(eq.isHistorical, FALSE, FALSE)
              ELSE entry[f]]
      ELSE entry

\* exportToJSON of both variants (lines 83-102, 435-462); exportDate, the wall
\* clock, is left out.  statistics is what the component holds as its stats.
exportToJSON(eqs, statistics, yearRange, minMagnitude, withHistorical) ==
  IF Len(eqs) = 0 THEN NoDownload
  ELSE [filename |-> "india_earthquakes.json", type |-> "application/json",
        content |->
          [metadata |-> [yearRange |-> yearRange,
                         minMagnitude |-> minMagnitude,
                         totalRecords |-> Len(eqs),
                         source |-> "National Center for Seismology (NCS) / USGS"],
           statistics |-> statistics,
           earthquakes |-> [k \in DOMAIN eqs |-> jsonEntry(eqs[k], withHistorical)]]]

\* ${minMagnitude} for a slider value (a multiple of 0.5), as characters.
MagnitudeText(m) ==
  Numeral(m \div 100) \o (IF m % 100 = 0 THEN <<>> ELSE <<".", ToString((m % 100) \div 10)>>)

\* Fetching variant, lines 360-361: the query string of the request.
archiveQuery(yearRange, minMagnitude) ==
  [type |-> <<"all">>,
   startYear |-> <<Numeral(yearRange[1])>>,
   endYear |-> <<Numeral(yearRange[2])>>,
   minMagnitude |-> <<MagnitudeText(minMagnitude)>>,
   state |-> <<>>, region |-> <<>>, limit |-> <<>>]

\* ---- sampled inputs ------------------------------------------------------

\* Positions of the two sliders (years 1976..2026, magnitudes 2.0..8.0 by 0.5).
YearRangeSamples == {<<1976, 2026>>, <<1976, 1999>>, <<2000, 2026>>}

MinMagnitudeSamples == {450, 800}

\* ---- the pre-computed statistics (src/data/staticEarthquakes.ts lines 57-90) --

\* staticStats as written in the source; magnitudes in hundredths, avgMagnitude
\* (the string "5.0") in tenths.
staticStats ==
  [total |-> 30,
   avgMagnitude |-> [type |-> "string", tenths |-> 50],
   maxMagnitude |-> 770,
   byRegion |-> [r \in {"North India", "North-East India", "East India", "West India",
                        "Andaman & Nicobar"} |->
                   CASE r = "North India" -> 9
                     [] r = "North-East India" -> 7
                     [] r = "East India" -> 6
                     [] r = "West India" -> 3
                     [] r = "Andaman & Nicobar" -> 2],
   byDecade |-> [d \in {"1960s", "1990s", "2000s", "2010s", "2020s"} |->
                   CASE d = "1960s" -> 1
                     [] d = "1990s" -> 3
                     [] d = "2000s" -> 2
                     [] d = "2010s" -> 3
                     [] d = "2020s" -> 21],
   byState |-> [s \in {"Jammu & Kashmir", "West Bengal", "Ladakh", "Manipur", "Mizoram",
                       "Sikkim", "Uttarakhand", "Andaman & Nicobar", "Gujarat",
                       "Maharashtra", "Assam", "Nagaland", "Arunachal Pradesh"} |->
                  CASE s = "Jammu & Kashmir" -> 5
                    [] s = "West Bengal" -> 4
                    [] s \in {"Ladakh", "Manipur", "Sikkim"} -> 3
                    [] s \in {"Mizoram", "Uttarakhand", "Andaman & Nicobar",
                              "Maharashtra"} -> 2
                    [] OTHER -> 1]]

\* IndiaMap.tsx (static variant) lines 328-329: the summary shows staticStats.
indiaMapStats == staticStats

\* ------------------------------------------------------------------------
\* State
\* ------------------------------------------------------------------------

VARIABLES
  lookupCall,   \* the lookup last called and its arguments
  lookupResult  \* what it returned

VARIABLES
  smsVariant,   \* which handler serves the request: "twilio" or "fast2sms"
  smsReq,       \* the request being served
  smsEnv,       \* the environment variables the handler reads
  smsPc,        \* "idle", "awaiting" (the outbound fetch is pending), "done"
  smsOutbound,  \* the calls made to the SMS gateway for this request, in order
  smsGw,        \* the gateway's answers received for this request, in order
  smsResp       \* the response returned, once smsPc = "done"

VARIABLES
  usgsCount,     \* <<n>> once USGS has served its catalogue of n events, else <<>>
  table,         \* public.earthquakes: id -> the rows carrying it, for the ids present
  dbNow,         \* the database clock: statements executed so far
  seedPc,        \* per run: "idle", "fetching", "upserting", "done"
  seedUsgs,      \* per run: how USGS answered: "", "ok", "not ok", "malformed"
  seedFeed,      \* per run: the feed fetched, [n, ver]
  seedI,         \* per run: the loop variable i
  seedInserted,  \* per run: the counter inserted
  seedLog,       \* per run: the batches whose upsert has returned, in order
  seedResp,      \* per run: the response returned
  seedOrder,     \* the runs that have returned, in the order they returned
  tableAtReturn  \* per run: the table as it was when the run returned

VARIABLES
  fetchReq,      \* the request being served by fetch-earthquakes
  fetchParsed,   \* its parsed query parameters
  fetchPc,       \* "idle", "awaiting" (the USGS fetch is pending), "done"
  fetchOutbound, \* the calls made to USGS for this request, in order
  fetchUsgs,     \* the answers of USGS received, in order
  fetchResp      \* the response returned, once fetchPc = "done"

VARIABLES
  archiveVariant, \* the component mounted: "static" or "fetching"
  yearRange,      \* the year slider: <<from, to>>
  minMagnitude,   \* the magnitude slider, in hundredths
  earthquakes,    \* fetching variant: the list held
  stats,          \* fetching variant: the statistics held (<<>> is null)
  loading,        \* fetching variant: a load is under way
  error,          \* fetching variant: the error shown (<<>> is null)
  dataFetched,    \* fetching variant: a load has succeeded
  archivePending, \* fetching variant: the query of the load under way
  download        \* the file the last step handed to the browser, if any

VARIABLES
  clientCalls,   \* statements clients have run against the table so far
  clientCall,    \* the last of them: its role, command and target
  clientResult   \* what it returned: the error, if any, and the rows

VARIABLES
  formPhone,        \* SMSAlerts: phoneNumber, the digits typed
  formMinMagnitude, \* SMSAlerts: minMagnitude
  formLoading,      \* SMSAlerts: loading
  formSuccess,      \* SMSAlerts: success
  formToast,        \* the toast last shown ("" for none)
  formInFlight,     \* invocations of send-sms-alert awaiting their answer
  formTimers,       \* reset timers (setTimeout 3000) pending
  formSubmits       \* submit events handled so far

VARIABLES
  mapEarthquakes,      \* live map: earthquakes, the list held
  mapLoading,          \* live map: loading
  mapError,            \* live map: error (<<>> is null)
  lastUpdated,         \* live map: the refresh whose answer set it (<<>> is null)
  mapboxToken,         \* live map: a token has been stored
  isLive,              \* live map: isLive
  connectionStatus,    \* live map: "connected", "disconnected" or "connecting"
  newEarthquakeAlert,  \* live map: the earthquake of the banner (<<>> is null)
  previousEarthquakes, \* live map: previousEarthquakesRef, a set of ids
  markers,             \* live map: markersRef, the earthquakes with a marker
  mapCurrent,          \* live map: map.current holds a map
  tokenPending,        \* the invocation of get-mapbox-token is under way
  refreshCount,        \* refreshes started so far; a refresh is known by its number
  refreshInFlight,     \* the refreshes awaiting their answer
  refreshAnswer,       \* per refresh: how its invocation settled
  refreshOverlap,      \* per refresh: another one was in flight when it started
  alertTimers,         \* banner timers (setTimeout 10000) pending
  sinceTimer           \* minutes since the interval was set, fired, or live changed

lookupVars == <<lookupCall, lookupResult>>

smsVars == <<smsVariant, smsReq, smsEnv, smsPc, smsOutbound, smsGw, smsResp>>

seedVars == <<usgsCount, table, dbNow, seedPc, seedUsgs, seedFeed, seedI, seedInserted,
              seedLog, seedResp, seedOrder, tableAtReturn>>

fetchVars == <<fetchReq, fetchParsed, fetchPc, fetchOutbound, fetchUsgs, fetchResp>>

archiveVars == <<archiveVariant, yearRange, minMagnitude, earthquakes, stats,
                 loading, error, dataFetched, archivePending, download>>

accessVars == <<clientCalls, clientCall, clientResult>>

formVars == <<formPhone, formMinMagnitude, formLoading, formSuccess, formToast,
              formInFlight, formTimers, formSubmits>>

mapVars == <<mapEarthquakes, mapLoading, mapError, lastUpdated, mapboxToken, isLive,
             connectionStatus, newEarthquakeAlert, previousEarthquakes, markers,
             mapCurrent, tokenPending, refreshCount, refreshInFlight, refreshAnswer,
             refreshOverlap, alertTimers, sinceTimer>>

vars == <<lookupVars, smsVars, seedVars, fetchVars, archiveVars, accessVars, formVars,
          mapVars>>

NoResponse == [status |-> 0, body |-> EmptyBody]

NoCall == [fn |-> "none", lat |-> 0, lng |-> 0, state |-> ""]

IdleLookup ==
  /\ lookupCall = NoCall
  /\ lookupResult = ""

IdleSms ==
  /\ smsVariant = "twilio"
  /\ smsReq = [method |-> "OPTIONS", parses |-> TRUE, hasPhone |-> FALSE,
               phoneNumber |-> <<>>]
  /\ smsEnv = [hasApiKey |-> FALSE]
  /\ smsPc = "idle"
  /\ smsOutbound = <<>>
  /\ smsGw = <<>>
  /\ smsResp = NoResponse

EmptyTable == [id \in {} |-> TRUE]

NoFeed == [n |-> 0, ver |-> 0]

IdleSeed ==
  /\ usgsCount = <<>>
  /\ table = EmptyTable
  /\ dbNow = 0
  /\ seedPc = [r \in SeedRuns |-> "idle"]
  /\ seedUsgs = [r \in SeedRuns |-> ""]
  /\ seedFeed = [r \in SeedRuns |-> NoFeed]
  /\ seedI = [r \in SeedRuns |-> 0]
  /\ seedInserted = [r \in SeedRuns |-> 0]
  /\ seedLog = [r \in SeedRuns |-> <<>>]
  /\ seedResp = [r \in SeedRuns |-> NoResponse]
  /\ seedOrder = <<>>
  /\ tableAtReturn = [r \in SeedRuns |-> EmptyTable]

NoQuery ==
  [type |-> <<>>, startYear |-> <<>>, endYear |-> <<>>, minMagnitude |-> <<>>,
   state |-> <<>>, region |-> <<>>, limit |-> <<>>]

NoParams == [dataType |-> "", startYear |-> NaN, endYear |-> NaN, minMagnitude |-> NaN]

IdleFetch ==
  /\ fetchReq = [method |-> "OPTIONS", query |-> NoQuery]
  /\ fetchParsed = NoParams
  /\ fetchPc = "idle"
  /\ fetchOutbound = <<>>
  /\ fetchUsgs = <<>>
  /\ fetchResp = NoResponse

\* The useState initial values of the archive component.
MountedArchive ==
  /\ yearRange = <<1976, 2026>>
  /\ minMagnitude = 300
  /\ earthquakes = <<>>
  /\ stats = NoStats
  /\ loading = FALSE
  /\ error = <<>>
  /\ dataFetched = FALSE
  /\ archivePending = NoQuery
  /\ download = NoDownload

IdleArchive == archiveVariant = "static" /\ MountedArchive

NoStatement == [role |-> "", command |-> "", id |-> ""]

NoResult == [error |-> "", rows |-> {}]

IdleAccess ==
  /\ clientCalls = 0
  /\ clientCall = NoStatement
  /\ clientResult = NoResult

\* The useState initial values of SMSAlerts (lines 51-55).
MountedForm ==
  /\ formPhone = <<>>
  /\ formMinMagnitude = 4
  /\ formLoading = FALSE
  /\ formSuccess = FALSE
  /\ formToast = ""
  /\ formInFlight = 0
  /\ formTimers = 0
  /\ formSubmits = 0

\* Refreshes of the live map handled in one behaviour.
MaxRefreshes == 3

NotSettled == [kind |-> "none", message |-> "", earthquakes |-> <<>>]

\* The live map after its first render and its mount effects (part_005 lines
\* 29-42, 156-232).  The effect that creates the map runs once, on mount, when
\* mapboxToken is still null, and returns at its first line: no map is
\* created, and the load handler that would fetch the earthquakes is never
\* attached.  The interval effect has set its interval (isLive is true).
MountedMap ==
  /\ mapEarthquakes = <<>>
  /\ mapLoading = TRUE
  /\ mapError = <<>>
  /\ lastUpdated = <<>>
  /\ mapboxToken = FALSE
  /\ isLive = TRUE
  /\ connectionStatus = "connecting"
  /\ newEarthquakeAlert = <<>>
  /\ previousEarthquakes = {}
  /\ markers = <<>>
  /\ mapCurrent = FALSE
  /\ tokenPending = TRUE
  /\ refreshCount = 0
  /\ refreshInFlight = {}
  /\ refreshAnswer = [r \in 1..MaxRefreshes |-> NotSettled]
  /\ refreshOverlap = [r \in 1..MaxRefreshes |-> FALSE]
  /\ alertTimers = 0
  /\ sinceTimer = 0

Idle ==
  /\ IdleLookup /\ IdleSms /\ IdleSeed /\ IdleFetch /\ IdleArchive
  /\ IdleAccess /\ MountedForm /\ MountedMap

\* ---- the live map (part_005) -------------------------------------------------

\* q.isHistorical as a condition: undefined (<<>>) and false are falsy.
Truthy(flag) == flag = <<TRUE>>

\* Lines 54-64: checkForNewEarthquakes.  The result tells whether the banner
\* is raised, for which earthquake, and the ids the ref holds afterwards.
checkForNewEarthquakes(newQuakes, currentIds) ==
  LET fresh == {k \in DOMAIN newQuakes :
                  newQuakes[k].id \notin currentIds /\ ~Truthy(newQuakes[k].isHistorical)}
      first == CHOOSE k \in fresh : \A j \in fresh : k <= j
  IN  [raised |-> fresh # {} /\ currentIds # {},
       found |-> IF fresh # {} THEN <<newQuakes[first]>> ELSE <<>>,
       previous |-> {newQuakes[k].id : k \in DOMAIN newQuakes}]

\* What fetch-earthquakes answers to supabase.functions.invoke("fetch-earthquakes")
\* (line 72): a POST without query parameters, so type recent.
mapServerResponse(usgs, nowYear, tieUp) ==
  fetchAfter(fetchParams(NoQuery, nowYear), usgs, tieUp)

\* The { data, error } of invoke: a non-2xx answer comes back as an error.
mapInvoke(resp) ==
  IF resp.status = 200
  THEN [kind |-> "ok", message |-> "", earthquakes |-> resp.body.earthquakes]
  ELSE [kind |-> "error", message |-> "Edge Function returned a non-2xx status code",
        earthquakes |-> <<>>]

\* The answers of USGS sampled behind a refresh of the map.
MapUsgsAnswers ==
  {a \in UsgsAnswers : \/ a.kind = "not ok" /\ a.status = 503
                       \/ a.kind = "no features"
                       \/ /\ a.kind = "ok" /\ Len(a.features) = MaxFetchFeed
                          /\ a.features[1].id \in {"us1", "us4"}}

\* How an invocation settles: answered by the function, or not sent at all.
MapOutcomes ==
  {mapInvoke(mapServerResponse(usgs, 2026, TRUE)) : usgs \in MapUsgsAnswers}
  \cup {[kind |-> "error", message |-> "Failed to send a request to the Edge Function",
         earthquakes |-> <<>>]}

\* Line 232: the delay of the interval, in minutes.
intervalMinutes(live) == IF live THEN 1 ELSE 5

\* ------------------------------------------------------------------------
\* Actions: the lookups
\* ------------------------------------------------------------------------

\* Latitudes and longitudes on and just past every edge a rule tests.
LatSamples == {k * UnitsPerDegree + d : k \in 5..36, d \in {0, 1}}

LngSamples == {k * UnitsPerDegree + d : k \in 67..98, d \in {0, 1}}

StateSamples ==
  UNION {RegionMap[i].states : i \in DOMAIN RegionMap}
  \cup {StateRules[i].label : i \in DOMAIN StateRules}
  \cup {"India", "", "Ladakh", "assam", "Andaman & Nicobar", "North India"}

OtherUnchangedByLookup == UNCHANGED <<smsVars, seedVars, fetchVars, archiveVars,
                                      accessVars, formVars, mapVars>>

SeedGetIndianState ==
  /\ lookupCall = NoCall
  /\ \E lat \in LatSamples, lng \in LngSamples :
       /\ lookupCall' = [fn |-> "seed.getIndianState", lat |-> lat, lng |-> lng,
                         state |-> ""]
       /\ lookupResult' = getIndianState(lat, lng)
  /\ OtherUnchangedByLookup

FetchGetIndianState ==
  /\ lookupCall = NoCall
  /\ \E lat \in LatSamples, lng \in LngSamples :
       /\ lookupCall' = [fn |-> "fetch.getIndianState", lat |-> lat, lng |-> lng,
                         state |-> ""]
       /\ lookupResult' = fetchGetIndianState(lat, lng)
  /\ OtherUnchangedByLookup

SeedGetRegion ==
  /\ lookupCall = NoCall
  /\ \E state \in StateSamples :
       /\ lookupCall' = [fn |-> "seed.getRegion", lat |-> 0, lng |-> 0,
                         state |-> state]
       /\ lookupResult' = getRegion(state)
  /\ OtherUnchangedByLookup

FetchGetRegion ==
  /\ lookupCall = NoCall
  /\ \E state \in StateSamples :
       /\ lookupCall' = [fn |-> "fetch.getRegion", lat |-> 0, lng |-> 0,
                         state |-> state]
       /\ lookupResult' = fetchGetRegion(state)
  /\ OtherUnchangedByLookup

NextLookup ==
  \/ SeedGetIndianState
  \/ FetchGetIndianState
  \/ SeedGetRegion
  \/ FetchGetRegion

\* ------------------------------------------------------------------------
\* Actions: send-sms-alert
\* ------------------------------------------------------------------------

OtherUnchangedBySms == UNCHANGED <<lookupVars, seedVars, fetchVars, archiveVars,
                                      accessVars, formVars, mapVars>>

\* A handler that sends its call to the gateway twice.
SmsRunRepeating(variant, req, env, before) ==
  /\ smsVariant' = variant
  /\ smsReq' = req
  /\ smsEnv' = env
  /\ smsGw' = <<>>
  /\ IF before.kind = "respond"
     THEN /\ smsResp' = before.resp
          /\ smsOutbound' = <<>>
          /\ smsPc' = "done"
     ELSE /\ smsResp' = NoResponse
          /\ smsOutbound' = <<before.call, before.call>>
          /\ smsPc' = "awaiting"

\* A request arrives and the handler runs up to its first await on the gateway.
SmsRun(variant, req, env, before) ==
  /\ smsVariant' = variant
  /\ smsReq' = req
  /\ smsEnv' = env
  /\ smsGw' = <<>>
  /\ IF before.kind = "respond"
     THEN /\ smsResp' = before.resp
          /\ smsOutbound' = <<>>
          /\ smsPc' = "done"
     ELSE /\ smsResp' = NoResponse
          /\ smsOutbound' = <<before.call>>
          /\ smsPc' = "awaiting"

TwilioHandle ==
  /\ smsPc = "idle"
  /\ \E req \in SmsRequests, env \in TwilioEnvs :
       SmsRun("twilio", req, env, twilioBefore(req, env))
  /\ OtherUnchangedBySms

Fast2smsHandle ==
  /\ smsPc = "idle"
  /\ \E req \in SmsRequests, env \in Fast2smsEnvs :
       SmsRun("fast2sms", req, env, fast2smsBefore(req, env))
  /\ OtherUnchangedBySms

\* The outbound fetch settles and the handler runs to its return.
TwilioGatewayAnswers ==
  /\ smsPc = "awaiting" /\ smsVariant = "twilio"
  /\ \E gw \in TwilioAnswers :
       /\ smsGw' = Append(smsGw, gw)
       /\ smsResp' = twilioAfter(gw)
  /\ smsPc' = "done"
  /\ UNCHANGED <<smsVariant, smsReq, smsEnv, smsOutbound>>
  /\ OtherUnchangedBySms

Fast2smsGatewayAnswers ==
  /\ smsPc = "awaiting" /\ smsVariant = "fast2sms"
  /\ \E gw \in Fast2smsAnswers :
       /\ smsGw' = Append(smsGw, gw)
       /\ smsResp' = fast2smsAfter(gw)
  /\ smsPc' = "done"
  /\ UNCHANGED <<smsVariant, smsReq, smsEnv, smsOutbound>>
  /\ OtherUnchangedBySms

NextSms ==
  \/ TwilioHandle
  \/ Fast2smsHandle
  \/ TwilioGatewayAnswers
  \/ Fast2smsGatewayAnswers

\* ------------------------------------------------------------------------
\* Actions: the seed job
\* ------------------------------------------------------------------------

OtherUnchangedBySeed == UNCHANGED <<lookupVars, smsVars, fetchVars, archiveVars,
                                      accessVars, formVars, mapVars>>

\* A success response that counts every row fetched as inserted.
seedSuccessCountingAll(feed, inserted) ==
  [status |-> 200,
   body |-> [success |-> TRUE, total_fetched |-> feed.n,
             total_inserted |-> feed.n, year_range |-> "1976-2026"]]

\* Lines 118-125: the success response.
seedSuccess(feed, inserted) ==
  [status |-> 200,
   body |-> [success |-> TRUE, total_fetched |-> feed.n,
             total_inserted |-> inserted, year_range |-> "1976-2026"]]

\* Lines 126-131: the catch.
seedCatch(message) == ErrorResponse(500, message)

\* The run returns resp; tbl is the table at that moment.
SeedReturn(r, resp, tbl) ==
  /\ seedPc' = [seedPc EXCEPT ![r] = "done"]
  /\ seedResp' = [seedResp EXCEPT ![r] = resp]
  /\ seedOrder' = Append(seedOrder, r)
  /\ tableAtReturn' = [tableAtReturn EXCEPT ![r] = tbl]

\* The loop test `i < rows.length` at value i: either the next upsert is issued
\* (and awaited) or the loop is left and the success response returned.
SeedLoop(r, feed, i, inserted, tbl) ==
  /\ seedI' = [seedI EXCEPT ![r] = i]
  /\ seedInserted' = [seedInserted EXCEPT ![r] = inserted]
  /\ IF i < feed.n
     THEN /\ seedPc' = [seedPc EXCEPT ![r] = "upserting"]
          /\ UNCHANGED <<seedResp, seedOrder, tableAtReturn>>
     ELSE SeedReturn(r, seedSuccess(feed, inserted), tbl)

\* Lines 57-75: a request arrives; a preflight is answered, anything else
\* fetches from USGS.
SeedRequest(r) ==
  /\ seedPc[r] = "idle"
  /\ \E method \in {"POST", "OPTIONS"} :
       IF method = "OPTIONS"
       THEN /\ SeedReturn(r, PreflightResponse, table)
            /\ UNCHANGED <<seedUsgs, seedFeed, seedI, seedInserted, seedLog>>
       ELSE /\ seedPc' = [seedPc EXCEPT ![r] = "fetching"]
            /\ UNCHANGED <<seedUsgs, seedFeed, seedI, seedInserted, seedLog, seedResp,
                           seedOrder, tableAtReturn>>
  /\ UNCHANGED <<usgsCount, table, dbNow>>
  /\ OtherUnchangedBySeed

\* Lines 75-104: USGS answers.  A non-OK status and a feature the transform
\* cannot read both end in the catch; otherwise the rows are built and the loop
\* is entered.  The catalogue keeps its size and ids over the runs observed;
\* its revision may change from one run to the next.
SeedUsgsAnswers(r) ==
  /\ seedPc[r] = "fetching"
  /\ UNCHANGED <<table, dbNow, seedLog>>
  /\ \/ \E ver \in Revisions,
            n \in (IF usgsCount = <<>> THEN FeedLens ELSE {usgsCount[1]}) :
          /\ usgsCount' = <<n>>
          /\ seedUsgs' = [seedUsgs EXCEPT ![r] = "ok"]
          /\ seedFeed' = [seedFeed EXCEPT ![r] = [n |-> n, ver |-> ver]]
          /\ SeedLoop(r, [n |-> n, ver |-> ver], 0, 0, table)
     \/ \E answer \in {"not ok", "malformed"} :
          /\ seedUsgs' = [seedUsgs EXCEPT ![r] = answer]
          /\ SeedReturn(r, seedCatch(IF answer = "not ok"
                                     THEN "USGS API error: 503"
                                     ELSE NullTypeError), table)
          /\ UNCHANGED <<usgsCount, seedFeed, seedI, seedInserted>>
  /\ OtherUnchangedBySeed

\* Lines 105-114: the awaited upsert of the batch at i returns, with or without
\* an error; the loop goes on either way.
SeedUpsertReturns(r) ==
  /\ seedPc[r] = "upserting"
  /\ LET batch == seedBatch(seedRows(seedFeed[r]), seedI[r]) IN
     \E failed \in BOOLEAN :
       /\ table' = IF failed THEN table ELSE Upsert(table, batch, dbNow)
       /\ dbNow' = dbNow + 1
       /\ seedLog' = [seedLog EXCEPT ![r] =
                        Append(@, [i |-> seedI[r], size |-> Len(batch),
                                   error |-> failed])]
       /\ SeedLoop(r, seedFeed[r], seedI[r] + BatchSize,
                   IF failed THEN seedInserted[r] ELSE seedInserted[r] + Len(batch),
                   table')
  /\ UNCHANGED <<usgsCount, seedUsgs, seedFeed>>
  /\ OtherUnchangedBySeed

NextSeed ==
  \/ \E r \in SeedRuns : SeedRequest(r)
  \/ \E r \in SeedRuns : SeedUsgsAnswers(r)
  \/ \E r \in SeedRuns : SeedUpsertReturns(r)

\* ------------------------------------------------------------------------
\* Actions: fetch-earthquakes
\* ------------------------------------------------------------------------

OtherUnchangedByFetch == UNCHANGED <<lookupVars, smsVars, seedVars, archiveVars,
                                      accessVars, formVars, mapVars>>

\* The years the handler's clock may show.
ClockYears == {2026}

\* Lines 70-103: a request arrives and the handler runs to its return or to
\* its await on USGS.
FetchRequest ==
  /\ fetchPc = "idle"
  /\ \E req \in FetchRequests, nowYear \in ClockYears, tieUp \in BOOLEAN :
       LET before == fetchBefore(req, nowYear, tieUp) IN
       /\ fetchReq' = req
       /\ fetchParsed' = IF req.method = "OPTIONS" THEN NoParams
                         ELSE fetchParams(req.query, nowYear)
       /\ IF before.kind = "respond"
          THEN /\ fetchResp' = before.resp
               /\ fetchOutbound' = <<>>
               /\ fetchPc' = "done"
          ELSE /\ fetchResp' = NoResponse
               /\ fetchOutbound' = <<before.call>>
               /\ fetchPc' = "awaiting"
  /\ UNCHANGED fetchUsgs
  /\ OtherUnchangedByFetch

\* Lines 101-243: USGS answers and the handler runs to its return.
FetchUsgsAnswers ==
  /\ fetchPc = "awaiting"
  /\ \E usgs \in UsgsAnswers, tieUp \in BOOLEAN :
       /\ fetchUsgs' = Append(fetchUsgs, usgs)
       /\ fetchResp' = fetchAfter(fetchParsed, usgs, tieUp)
  /\ fetchPc' = "done"
  /\ UNCHANGED <<fetchReq, fetchParsed, fetchOutbound>>
  /\ OtherUnchangedByFetch

NextFetch ==
  \/ FetchRequest
  \/ FetchUsgsAnswers

\* ------------------------------------------------------------------------
\* Actions: the historical archive component
\* ------------------------------------------------------------------------

OtherUnchangedByArchive == UNCHANGED <<lookupVars, smsVars, seedVars, fetchVars,
                                      accessVars, formVars, mapVars>>

\* The list the export buttons work on: the filtered static data, or the list
\* last loaded.
ArchiveList ==
  IF archiveVariant = "static" THEN filteredEarthquakes(yearRange, minMagnitude)
  ELSE earthquakes

\* The answers of USGS sampled behind a load of the archive.
ArchiveUsgsAnswers ==
  {a \in UsgsAnswers : \/ a.kind = "not ok" /\ a.status = 503
                       \/ /\ a.kind = "ok" /\ Len(a.features) = MaxFetchFeed
                          /\ a.features[1].id \in {"us1", "us4"}}

SetYearRange ==
  /\ \E value \in YearRangeSamples : yearRange' = value
  /\ download' = NoDownload
  /\ UNCHANGED <<archiveVariant, minMagnitude, earthquakes, stats, loading, error,
                 dataFetched, archivePending>>
  /\ OtherUnchangedByArchive

SetMinMagnitude ==
  /\ \E value \in MinMagnitudeSamples : minMagnitude' = value
  /\ download' = NoDownload
  /\ UNCHANGED <<archiveVariant, yearRange, earthquakes, stats, loading, error,
                 dataFetched, archivePending>>
  /\ OtherUnchangedByArchive

\* The Export CSV button (shown for a non-empty list).
ExportToCSV ==
  /\ Len(ArchiveList) > 0
  /\ \E tieUp \in BOOLEAN : download' = exportToCSV(ArchiveList, tieUp)
  /\ UNCHANGED <<archiveVariant, yearRange, minMagnitude, earthquakes, stats,
                 loading, error, dataFetched, archivePending>>
  /\ OtherUnchangedByArchive

\* The Export JSON button (shown for a non-empty list).
ExportToJSON ==
  /\ Len(ArchiveList) > 0
  /\ \E tieUp \in BOOLEAN :
       download' = exportToJSON(ArchiveList,
                                IF archiveVariant = "static"
                                THEN filteredStats(ArchiveList, tieUp) ELSE stats,
                                yearRange, minMagnitude,
                                archiveVariant = "fetching")
  /\ UNCHANGED <<archiveVariant, yearRange, minMagnitude, earthquakes, stats,
                 loading, error, dataFetched, archivePending>>
  /\ OtherUnchangedByArchive

\* Fetching variant, lines 349-359: the Load button (disabled while loading).
\* The request carries the slider values of the render the click happened in.
\* The answer of the preceding supabase.functions.invoke call is not used.
FetchHistoricalData ==
  /\ archiveVariant = "fetching"
  /\ ~loading
  /\ loading' = TRUE
  /\ error' = <<>>
  /\ archivePending' = archiveQuery(yearRange, minMagnitude)
  /\ download' = NoDownload
  /\ UNCHANGED <<archiveVariant, yearRange, minMagnitude, earthquakes, stats,
                 dataFetched>>
  /\ OtherUnchangedByArchive

\* What fetch-earthquakes answers to a GET with this query.
ArchiveServerResponse(query, usgs, nowYear, tieUp) ==
  LET req == [method |-> "GET", query |-> query]
      before == fetchBefore(req, nowYear, tieUp)
  IN  IF before.kind = "respond" THEN before.resp
      ELSE fetchAfter(fetchParams(query, nowYear), usgs, tieUp)

\* Fetching variant, lines 368-382: the response arrives, or the fetch fails.
HistoricalDataArrives ==
  /\ archiveVariant = "fetching"
  /\ loading
  /\ \/ \E usgs \in ArchiveUsgsAnswers, nowYear \in ClockYears, tieUp \in BOOLEAN :
          LET resp == ArchiveServerResponse(archivePending, usgs, nowYear, tieUp) IN
          IF resp.status = 200
          THEN /\ earthquakes' = resp.body.earthquakes
               /\ stats' = <<resp.body.stats>>
               /\ dataFetched' = TRUE
               /\ UNCHANGED error
          ELSE /\ error' = <<"Failed to fetch data">>
               /\ UNCHANGED <<earthquakes, stats, dataFetched>>
     \/ /\ error' = <<"Failed to fetch">>
        /\ UNCHANGED <<earthquakes, stats, dataFetched>>
  /\ loading' = FALSE
  /\ archivePending' = NoQuery
  /\ download' = NoDownload
  /\ UNCHANGED <<archiveVariant, yearRange, minMagnitude>>
  /\ OtherUnchangedByArchive

NextArchive ==
  \/ SetYearRange
  \/ SetMinMagnitude
  \/ ExportToCSV
  \/ ExportToJSON
  \/ FetchHistoricalData
  \/ HistoricalDataArrives

\* ------------------------------------------------------------------------
\* Actions: clients of the table
\* ------------------------------------------------------------------------

OtherUnchangedByAccess ==
  UNCHANGED <<lookupVars, smsVars, fetchVars, archiveVars, formVars, mapVars,
              usgsCount, seedPc, seedUsgs, seedFeed, seedI, seedInserted, seedLog,
              seedResp, seedOrder, tableAtReturn>>

\* Statements a client runs in one behaviour.
MaxClientCalls == 2

\* The ids client statements name: one of the catalogue and one of no feature.
ClientTargetIds == {"us1", "forged"}

\* A row made up by a client.
ClientRow(id) ==
  [CatalogueRows[1][1] EXCEPT !.id = id, !.magnitude = 990, !.source = "client"]

\* A statement has run: its result goes to the caller, the table is as the
\* statement left it.
ClientStatementRan(role, command, id, out) ==
  /\ clientCalls' = clientCalls + 1
  /\ clientCall' = [role |-> role, command |-> command, id |-> id]
  /\ clientResult' = [error |-> out.error, rows |-> out.rows]
  /\ table' = out.table
  /\ dbNow' = dbNow + 1
  /\ OtherUnchangedByAccess

ClientSelect ==
  /\ clientCalls < MaxClientCalls
  /\ \E role \in Roles :
       ClientStatementRan(role, "SELECT", "", clientSelect(role, table))

ClientInsert ==
  /\ clientCalls < MaxClientCalls
  /\ \E role \in Roles, id \in ClientTargetIds :
       ClientStatementRan(role, "INSERT", id,
                          clientInsert(role, ClientRow(id), table, dbNow))

ClientUpdate ==
  /\ clientCalls < MaxClientCalls
  /\ \E role \in Roles, id \in ClientTargetIds :
       ClientStatementRan(role, "UPDATE", id, clientUpdate(role, id, 990, table))

ClientDelete ==
  /\ clientCalls < MaxClientCalls
  /\ \E role \in Roles, id \in ClientTargetIds :
       ClientStatementRan(role, "DELETE", id, clientDelete(role, id, table))

NextAccess ==
  \/ ClientSelect
  \/ ClientInsert
  \/ ClientUpdate
  \/ ClientDelete

\* ------------------------------------------------------------------------
\* Actions: the SMS subscription form
\* ------------------------------------------------------------------------

OtherUnchangedByForm ==
  UNCHANGED <<lookupVars, smsVars, seedVars, fetchVars, archiveVars, accessVars,
              mapVars>>

\* Submit events handled in one behaviour.
MaxSubmits == 3

\* The form is rendered unless success is set (line 137).
FormShown == ~formSuccess

\* Line 160: the phone field changes.
FormChangePhone ==
  /\ FormShown
  /\ \E text \in FormTexts : formPhone' = formPhoneInput(text)
  /\ UNCHANGED <<formMinMagnitude, formLoading, formSuccess, formToast, formInFlight,
                 formTimers, formSubmits>>
  /\ OtherUnchangedByForm

\* Line 195: a magnitude button is clicked.
FormPickMagnitude ==
  /\ FormShown
  /\ \E value \in magnitudeOptions : formMinMagnitude' = value
  /\ UNCHANGED <<formPhone, formLoading, formSuccess, formToast, formInFlight,
                 formTimers, formSubmits>>
  /\ OtherUnchangedByForm

\* Lines 57-68: the form is submitted (its submit button is enabled) and
\* handleSubmit runs up to its await.
FormSubmit ==
  /\ FormShown
  /\ ~formSubmitDisabled(formLoading, formPhone)
  /\ formSubmits < MaxSubmits
  /\ formSubmits' = formSubmits + 1
  /\ IF formPhone = <<>>
     THEN /\ formToast' = MissingNumberToast
          /\ UNCHANGED <<formLoading, formInFlight>>
     ELSE /\ formLoading' = TRUE
          /\ formInFlight' = formInFlight + 1
          /\ UNCHANGED formToast
  /\ UNCHANGED <<formPhone, formMinMagnitude, formSuccess, formTimers>>
  /\ OtherUnchangedByForm

\* Lines 68-96: the invocation settles and handleSubmit runs to its end.
FormInvokeSettles ==
  /\ formInFlight > 0
  /\ \E outcome \in FormOutcomes :
       LET after == formAfterInvoke(outcome) IN
       /\ formToast' = after.toast
       /\ formSuccess' = (formSuccess \/ after.success)
       /\ formTimers' = IF after.success THEN formTimers + 1 ELSE formTimers
  /\ formLoading' = FALSE
  /\ formInFlight' = formInFlight - 1
  /\ UNCHANGED <<formPhone, formMinMagnitude, formSubmits>>
  /\ OtherUnchangedByForm

\* Lines 87-90: the reset timer fires.
FormTimerFires ==
  /\ formTimers > 0
  /\ formTimers' = formTimers - 1
  /\ formSuccess' = FALSE
  /\ formPhone' = <<>>
  /\ UNCHANGED <<formMinMagnitude, formLoading, formToast, formInFlight, formSubmits>>
  /\ OtherUnchangedByForm

NextForm ==
  \/ FormChangePhone
  \/ FormPickMagnitude
  \/ FormSubmit
  \/ FormInvokeSettles
  \/ FormTimerFires

\* ------------------------------------------------------------------------
\* Actions: the live map
\* ------------------------------------------------------------------------

OtherUnchangedByMap ==
  UNCHANGED <<lookupVars, smsVars, seedVars, fetchVars, archiveVars, accessVars,
              formVars>>

\* Minutes a behaviour lets pass without a timer firing.
MaxMinutes == 6

\* Lines 229-233: an interval is set while isLive is true, and only then.
IntervalSet == isLive

\* Lines 44-53: the invocation of get-mapbox-token settles.  No effect depends
\* on mapboxToken, so storing it creates no map.
MapTokenSettles ==
  /\ tokenPending
  /\ tokenPending' = FALSE
  /\ \/ mapboxToken' = TRUE /\ UNCHANGED mapError
     \/ mapError' = <<"Map configuration error">> /\ UNCHANGED mapboxToken
  /\ UNCHANGED <<mapEarthquakes, mapLoading, lastUpdated, isLive, connectionStatus,
                 newEarthquakeAlert, previousEarthquakes, markers, mapCurrent,
                 refreshCount, refreshInFlight, refreshAnswer, refreshOverlap,
                 alertTimers, sinceTimer>>
  /\ OtherUnchangedByMap

\* Lines 66-72: fetchEarthquakes(showLoading) up to its await.
refreshStart(showLoading) ==
  /\ refreshCount < MaxRefreshes
  /\ refreshCount' = refreshCount + 1
  /\ mapLoading' = (showLoading \/ mapLoading)
  /\ mapError' = <<>>
  /\ connectionStatus' = "connecting"
  /\ refreshInFlight' = refreshInFlight \cup {refreshCount + 1}
  /\ refreshOverlap' = [refreshOverlap EXCEPT ![refreshCount + 1] = refreshInFlight # {}]
  /\ UNCHANGED <<mapEarthquakes, lastUpdated, mapboxToken, isLive, newEarthquakeAlert,
                 previousEarthquakes, markers, mapCurrent, tokenPending, refreshAnswer,
                 alertTimers>>

\* Lines 308-316: the Refresh button, disabled while loading.
ManualRefresh ==
  /\ ~mapLoading
  /\ refreshStart(TRUE)
  /\ UNCHANGED sinceTimer
  /\ OtherUnchangedByMap

\* Lines 332-341: the Try Again button, shown while an error is, over the
\* loading overlay and not disabled by it.
TryAgain ==
  /\ mapError # <<>>
  /\ refreshStart(TRUE)
  /\ UNCHANGED sinceTimer
  /\ OtherUnchangedByMap

\* Line 232: the interval fires and calls fetchEarthquakes(false).
IntervalFires ==
  /\ IntervalSet
  /\ sinceTimer = intervalMinutes(isLive)
  /\ refreshStart(FALSE)
  /\ sinceTimer' = 0
  /\ OtherUnchangedByMap

\* A minute passes; an interval that is due fires before the next one does.
MinutePasses ==
  /\ sinceTimer < MaxMinutes
  /\ IntervalSet => sinceTimer < intervalMinutes(isLive)
  /\ sinceTimer' = sinceTimer + 1
  /\ UNCHANGED <<mapEarthquakes, mapLoading, mapError, lastUpdated, mapboxToken, isLive,
                 connectionStatus, newEarthquakeAlert, previousEarthquakes, markers,
                 mapCurrent, tokenPending, refreshCount, refreshInFlight, refreshAnswer,
                 refreshOverlap, alertTimers>>
  /\ OtherUnchangedByMap

\* Lines 298-305: the Live / Paused button.  The effect of lines 229-233 clears
\* its interval and, when isLive has become true, sets a new one.
ToggleLive ==
  /\ isLive' = ~isLive
  /\ sinceTimer' = 0
  /\ UNCHANGED <<mapEarthquakes, mapLoading, mapError, lastUpdated, mapboxToken,
                 connectionStatus, newEarthquakeAlert, previousEarthquakes, markers,
                 mapCurrent, tokenPending, refreshCount, refreshInFlight, refreshAnswer,
                 refreshOverlap, alertTimers>>
  /\ OtherUnchangedByMap

\* Lines 72-143: the invocation of one refresh in flight settles and
\* fetchEarthquakes runs to its end.
RefreshSettles ==
  /\ \E r \in refreshInFlight, outcome \in MapOutcomes :
       /\ refreshInFlight' = refreshInFlight \ {r}
       /\ refreshAnswer' = [refreshAnswer EXCEPT ![r] = outcome]
       /\ IF outcome.kind = "ok"
          THEN LET quakes == outcome.earthquakes
                   check == checkForNewEarthquakes(quakes, previousEarthquakes)
               IN  /\ IF check.raised
                      THEN /\ newEarthquakeAlert' = check.found
                           /\ alertTimers' = alertTimers + 1
                      ELSE UNCHANGED <<newEarthquakeAlert, alertTimers>>
                   /\ previousEarthquakes' = check.previous
                   /\ mapEarthquakes' = quakes
                   /\ lastUpdated' = <<r>>
                   /\ connectionStatus' = "connected"
                   /\ markers' = IF mapCurrent THEN quakes ELSE markers
                   /\ UNCHANGED mapError
          ELSE /\ mapError' = <<outcome.message>>
               /\ connectionStatus' = "disconnected"
               /\ UNCHANGED <<mapEarthquakes, lastUpdated, newEarthquakeAlert,
                              previousEarthquakes, markers, alertTimers>>
  /\ mapLoading' = FALSE
  /\ UNCHANGED <<mapboxToken, isLive, mapCurrent, tokenPending, refreshCount,
                 refreshOverlap, sinceTimer>>
  /\ OtherUnchangedByMap

\* Line 60: a banner timer fires and clears the banner, whichever refresh
\* raised it.
AlertTimerFires ==
  /\ alertTimers > 0
  /\ alertTimers' = alertTimers - 1
  /\ newEarthquakeAlert' = <<>>
  /\ UNCHANGED <<mapEarthquakes, mapLoading, mapError, lastUpdated, mapboxToken, isLive,
                 connectionStatus, previousEarthquakes, markers, mapCurrent,
                 tokenPending, refreshCount, refreshInFlight, refreshAnswer,
                 refreshOverlap, sinceTimer>>
  /\ OtherUnchangedByMap

NextMap ==
  \/ MapTokenSettles
  \/ ManualRefresh
  \/ TryAgain
  \/ IntervalFires
  \/ MinutePasses
  \/ ToggleLive
  \/ RefreshSettles
  \/ AlertTimerFires

\* ------------------------------------------------------------------------
\* Specifications
\* ------------------------------------------------------------------------

\* The lookups, called with sampled arguments.
SpecLookup == Idle /\ [][NextLookup]_vars

\* send-sms-alert, either variant, serving one request.
SpecSms == Idle /\ [][NextSms]_vars

\* Two invocations of the seed job against one database.
SpecSeed == Idle /\ [][NextSeed]_vars

\* fetch-earthquakes serving one request.
SpecFetch == Idle /\ [][NextFetch]_vars

\* The archive component, either variant mounted.
InitArchive ==
  /\ IdleLookup /\ IdleSms /\ IdleSeed /\ IdleFetch /\ IdleAccess /\ MountedForm
  /\ MountedMap
  /\ archiveVariant \in {"static", "fetching"}
  /\ MountedArchive

SpecExport == InitArchive /\ [][NextArchive]_vars

SmsQuiet == smsPc = "idle"

SeedQuiet == \A r \in SeedRuns : seedPc[r] = "idle"

FetchQuiet == fetchPc = "idle"

\* The three serverless functions.  They share no state, so a behaviour follows
\* the invocations of one of them.
NextHandlers ==
  \/ SeedQuiet /\ FetchQuiet /\ NextSms
  \/ SmsQuiet /\ FetchQuiet /\ NextSeed
  \/ SmsQuiet /\ SeedQuiet /\ NextFetch

SpecHandlers == Idle /\ [][NextHandlers]_vars

\* One invocation of the seed job, over a feed of up to one full batch and one
\* row more, and clients of the table, against one database.
NextDatabase ==
  \/ SeedRequest(1)
  \/ SeedUsgsAnswers(1) /\ seedFeed'[1].n <= BatchSize + 1
  \/ SeedUpsertReturns(1)
  \/ NextAccess

SpecAccess == Idle /\ [][NextDatabase]_vars

\* The SMS subscription form.  An invocation under way settles: the promise of
\* supabase.functions.invoke resolves or rejects.
SpecForm == Idle /\ [][NextForm]_vars /\ WF_vars(FormInvokeSettles)

\* The live map.
SpecMap == Idle /\ [][NextMap]_vars

\* ------------------------------------------------------------------------
\* Claims
\* ------------------------------------------------------------------------

\* The phone string of the request with whitespace and hyphens removed.
StrippedPhone == RemoveAll(smsReq.phoneNumber, Whitespace \cup {"-"})

\* Ten digits, the first of them 6-9.
TenDigitMobile(s) ==
  /\ Len(s) = 10
  /\ s[1] \in {"6", "7", "8", "9"}
  /\ \A i \in 1..Len(s) : s[i] \in Digits

\* A ten-digit mobile number, bare or behind +91 or 91.
IndianMobile(s) ==
  \/ TenDigitMobile(s)
  \/ StartsWith(s, Plus91) /\ TenDigitMobile(SubSeq(s, Len(Plus91) + 1, Len(s)))
  \/ StartsWith(s, Bare91) /\ TenDigitMobile(SubSeq(s, Len(Bare91) + 1, Len(s)))

\* The handler has read a phone string from the request.
SmsPhoneRead ==
  smsPc # "idle" /\ smsReq.method = "POST" /\ smsReq.parses /\ smsReq.hasPhone

\* C1: in both variants of send-sms-alert a phone string is rejected with
\* status 400 exactly when, with whitespace and hyphens removed, it is not a
\* ten-digit number starting with 6-9, bare or behind +91 or 91.
C1_PhoneAcceptedIffIndianMobile ==
  SmsPhoneRead => (smsResp.status = 400 <=> ~IndianMobile(StrippedPhone))

\* ---- the seed job --------------------------------------------------------

\* Run r fetched its feed and has returned its success response.
SeedSucceeded(r) == seedPc[r] = "done" /\ seedUsgs[r] = "ok"

\* Both runs have gone through, over the same feed.
RanTwiceOverSameFeed ==
  /\ Len(seedOrder) = 2
  /\ \A r \in SeedRuns : SeedSucceeded(r)
  /\ seedFeed[1] = seedFeed[2]

NoBatchFailed ==
  \A r \in SeedRuns : \A k \in DOMAIN seedLog[r] : ~seedLog[r][k].error

FeedIds(feed) == {CatalogueRows[feed.ver][i].id : i \in 1..feed.n}

\* tbl holds exactly one row for each feature id of the feed, and no other row.
OneRowPerFeature(tbl, feed) ==
  /\ DOMAIN tbl = FeedIds(feed)
  /\ \A id \in DOMAIN tbl : Len(tbl[id]) = 1

SecondRunChangedNothing ==
  tableAtReturn[seedOrder[2]] = tableAtReturn[seedOrder[1]]

\* C2 as stated: after the job ran twice over the same feed the table holds
\* exactly one row per feature id, and the table after the second run equals
\* the table after the first.
C2_TwoRunsLeaveOneRowPerFeature ==
  RanTwiceOverSameFeed =>
    OneRowPerFeature(table, seedFeed[1]) /\ SecondRunChangedNothing

\* C2, amended: no id ever has more than one row; and when no batch upsert
\* failed, two runs over the same feed leave exactly one row per feature id and
\* the second run to return leaves the table as the first left it.
C2_TwoRunsIdempotentWhenUpsertsSucceed ==
  /\ \A id \in DOMAIN table : Len(table[id]) = 1
  /\ (RanTwiceOverSameFeed /\ NoBatchFailed) =>
       OneRowPerFeature(table, seedFeed[1]) /\ SecondRunChangedNothing

\* Two runs over a feed of more than one batch, every upsert successful.
C2_Witness ==
  /\ RanTwiceOverSameFeed /\ NoBatchFailed
  /\ seedFeed[1].n > BatchSize
  /\ Len(seedLog[2]) >= 2

\* C9: the rows are cut, in feed order, into consecutive batches of BatchSize
\* (the last one possibly shorter), every row lies in exactly one batch, and a
\* run has at most one upsert under way: the batch at i is issued only when the
\* upserts of all batches before i have returned.
C9_BatchesPartitionRowsInOrder ==
  \A r \in SeedRuns :
    LET feed == seedFeed[r]
        log == seedLog[r]
    IN  /\ \A k \in DOMAIN log :
             /\ log[k].i = (k - 1) * BatchSize
             /\ log[k].size = Min(BatchSize, feed.n - log[k].i)
             /\ log[k].size >= 1
        /\ seedPc[r] = "upserting" =>
             LET rows == seedRows(feed)
                 batch == seedBatch(rows, seedI[r])
             IN  /\ seedI[r] = Len(log) * BatchSize
                 /\ seedI[r] < feed.n
                 /\ Len(batch) = Min(BatchSize, feed.n - seedI[r])
                 /\ \A k \in DOMAIN batch : batch[k] = rows[seedI[r] + k]
        /\ SeedSucceeded(r) =>
             /\ Len(log) * BatchSize >= feed.n
             /\ (Len(log) - 1) * BatchSize < feed.n \/ feed.n = 0

\* A run over a full batch and a shorter last one has returned.
C9_Witness ==
  \E r \in SeedRuns :
    /\ SeedSucceeded(r)
    /\ Len(seedLog[r]) >= 2
    /\ seedLog[r][1].size = BatchSize
    /\ seedLog[r][Len(seedLog[r])].size < BatchSize

\* What the table's columns keep of each row of the catalogue.
StoredCatalogue ==
  [ver \in Revisions |->
     [i \in DOMAIN CatalogueRows[ver] |-> StoredColumns(CatalogueRows[ver][i])]]

\* The row is the stored form of one single transformed feature.
RowOfOneFeature(row) ==
  \E ver \in Revisions :
    row = WithCreatedAt(StoredCatalogue[ver][CatalogueIndex[row.id]], row.created_at)

\* C10: whatever batches failed and however two runs interleaved, every row of
\* the table is the complete record of one transformed feature (of one
\* revision) and no id has two rows.
C10_RowsWholeAndIdsUnique ==
  \A id \in DOMAIN table :
    /\ Len(table[id]) = 1
    /\ table[id][1].id = id
    /\ RowOfOneFeature(table[id][1])

\* Two runs over different revisions upserting in turn, a batch having failed.
C10_Witness ==
  /\ \A r \in SeedRuns : seedPc[r] = "upserting" /\ Len(seedLog[r]) >= 1
  /\ seedFeed[1].ver # seedFeed[2].ver
  /\ \E r \in SeedRuns : \E k \in DOMAIN seedLog[r] : seedLog[r][k].error
  /\ \E r \in SeedRuns : \E k \in DOMAIN seedLog[r] : ~seedLog[r][k].error

\* The sizes of the batches of the log whose upsert succeeded, summed.
RECURSIVE SucceededSize(_)
SucceededSize(log) ==
  IF log = <<>> THEN 0
  ELSE (IF log[1].error THEN 0 ELSE log[1].size) + SucceededSize(Tail(log))

\* Row i of the feed is in the table, as a revision of the catalogue has it.
RowStored(feed, i) ==
  LET id == CatalogueRows[feed.ver][i].id IN
  /\ id \in DOMAIN table
  /\ \E ver \in Revisions :
       table[id][1] = WithCreatedAt(StoredCatalogue[ver][i], table[id][1].created_at)

\* C14: a failed batch is passed over and every later batch is still
\* attempted; the rows of every batch whose upsert succeeded are in the table;
\* total_inserted is the summed size of the batches that succeeded, at most
\* total_fetched and equal to it exactly when no batch failed.
C14_FailedBatchesSkippedAndCounted ==
  \A r \in SeedRuns :
    LET feed == seedFeed[r]
        log == seedLog[r]
    IN  /\ \A k \in DOMAIN log :
             ~log[k].error => \A i \in (log[k].i + 1)..(log[k].i + log[k].size) :
                                RowStored(feed, i)
        /\ seedInserted[r] = SucceededSize(log)
        /\ SeedSucceeded(r) =>
             /\ Len(log) * BatchSize >= feed.n
             /\ seedResp[r].status = 200
             /\ seedResp[r].body.total_fetched = feed.n
             /\ seedResp[r].body.total_inserted = SucceededSize(log)
             /\ seedResp[r].body.total_inserted <= seedResp[r].body.total_fetched
             /\ (seedResp[r].body.total_inserted = seedResp[r].body.total_fetched)
                  <=> \A k \in DOMAIN log : ~log[k].error

\* A run whose first batch failed and whose second succeeded has returned.
C14_Witness ==
  \E r \in SeedRuns :
    /\ SeedSucceeded(r)
    /\ Len(seedLog[r]) = 2
    /\ seedLog[r][1].error /\ ~seedLog[r][2].error
    /\ seedResp[r].body.total_inserted = seedLog[r][2].size

\* ---- the lookups -----------------------------------------------------------

\* The rules of the if-chain that match the point called with.
MatchingRules ==
  {i \in DOMAIN StateRules : RuleMatches(StateRules[i], lookupCall.lat, lookupCall.lng)}

\* The region lists that hold the state called with.
HoldingLists == {i \in DOMAIN RegionMap : lookupCall.state \in RegionMap[i].states}

LeastOf(S) == CHOOSE m \in S : \A x \in S : m <= x

\* C3: getIndianState returns the label of the first rule that matches, "India"
\* when none does; getRegion returns the region whose list holds the state,
\* "India" when none does; in the seed job and in fetch-earthquakes alike, and
\* for every argument.
C3_LookupTotalFirstMatch ==
  /\ lookupCall.fn \in {"seed.getIndianState", "fetch.getIndianState"} =>
       lookupResult = IF MatchingRules = {} THEN "India"
                      ELSE StateRules[LeastOf(MatchingRules)].label
  /\ lookupCall.fn \in {"seed.getRegion", "fetch.getRegion"} =>
       lookupResult = IF HoldingLists = {} THEN "India"
                      ELSE RegionMap[LeastOf(HoldingLists)].region
  /\ lookupCall.fn # "none" => lookupResult # ""

\* A point where several rules match was looked up, and the first one won.
C3_Witness ==
  /\ lookupCall.fn = "seed.getIndianState"
  /\ Cardinality(MatchingRules) >= 3
  /\ lookupResult = "Assam"

\* ---- the export ------------------------------------------------------------

\* The number a numeral stands for, in units of 1 / unitsPerOne.
ReadNumber(text, unitsPerOne) ==
  IF 10 ^ text.decimals <= unitsPerOne
  THEN text.digits * (unitsPerOne \div (10 ^ text.decimals))
  ELSE text.digits \div ((10 ^ text.decimals) \div unitsPerOne)

\* new Date("2026-02-27"): midnight of that day.
ReadDate(date) == [y |-> date[1], md |-> date[2], ms |-> 0]

\* The earthquakes read back from the downloaded file, in file order.
ReadBack ==
  IF download.type = "text/csv"
  THEN [k \in 1..(Len(download.content) - 1) |->
          LET row == download.content[k + 1]
          IN  [time |-> ReadDate(row[1]),
               magnitude |-> ReadNumber(row[2], UnitsPerOne),
               lat |-> ReadNumber(row[7], UnitsPerDegree),
               lng |-> ReadNumber(row[8], UnitsPerDegree)]]
  ELSE [k \in DOMAIN download.content.earthquakes |->
          LET entry == download.content.earthquakes[k]
          IN  [time |-> ReadDate(entry.date),
               magnitude |-> entry.magnitude,
               lat |-> entry.latitude,
               lng |-> entry.longitude]]

Exported == download # NoDownload

\* C4 as stated: the file read back has one entry per earthquake of the list,
\* each with the magnitude, latitude, longitude and timestamp of its record.
C4_ExportRoundTripsExactly ==
  Exported =>
    /\ Len(ReadBack) = Len(ArchiveList)
    /\ \A k \in DOMAIN ReadBack :
         /\ ReadBack[k].magnitude = ArchiveList[k].magnitude
         /\ ReadBack[k].lat = ArchiveList[k].coordinates.lat
         /\ ReadBack[k].lng = ArchiveList[k].coordinates.lng
         /\ ReadBack[k].time = ArchiveList[k].time

\* |a - b| <= step / 2
WithinHalf(a, b, step) == 2 * a <= 2 * b + step /\ 2 * b <= 2 * a + step

\* C4, amended: the file has one entry per earthquake of the list, in list
\* order; of the timestamp it keeps the calendar day and drops the time of day;
\* the JSON file keeps magnitude, latitude and longitude as they are; the CSV
\* file keeps the magnitude rounded to one decimal and latitude and longitude
\* rounded to four.
C4_ExportKeepsDayAndRoundsCsv ==
  Exported =>
    /\ Len(ReadBack) = Len(ArchiveList)
    /\ \A k \in DOMAIN ReadBack :
         /\ ReadBack[k].time = [ArchiveList[k].time EXCEPT !.ms = 0]
         /\ download.type = "application/json" =>
              /\ ReadBack[k].magnitude = ArchiveList[k].magnitude
              /\ ReadBack[k].lat = ArchiveList[k].coordinates.lat
              /\ ReadBack[k].lng = ArchiveList[k].coordinates.lng
         /\ download.type = "text/csv" =>
              /\ download.content[k + 1][2].decimals = 1
              /\ download.content[k + 1][7].decimals = 4
              /\ download.content[k + 1][8].decimals = 4
              /\ WithinHalf(ReadBack[k].magnitude, ArchiveList[k].magnitude,
                            UnitsPerOne \div 10)
              /\ WithinHalf(ReadBack[k].lat, ArchiveList[k].coordinates.lat,
                            UnitsPerDegree \div 10000)
              /\ WithinHalf(ReadBack[k].lng, ArchiveList[k].coordinates.lng,
                            UnitsPerDegree \div 10000)

\* A CSV export of a loaded list that holds an earthquake with a time of day, a
\* magnitude of two decimals and a latitude of five.
C4_Witness ==
  /\ Exported
  /\ download.type = "text/csv"
  /\ archiveVariant = "fetching"
  /\ \E k \in DOMAIN ArchiveList :
       /\ ArchiveList[k].time.ms # 0
       /\ ArchiveList[k].magnitude % 10 # 0
       /\ ArchiveList[k].coordinates.lat % 10 # 0
       /\ ReadBack[k].magnitude # ArchiveList[k].magnitude
       /\ ReadBack[k].lat # ArchiveList[k].coordinates.lat

\* ---- send-sms-alert ----------------------------------------------------------

\* Every error text the two variants of the handler spell out.
HandlerErrorStrings ==
  {InvalidPhoneMessage,
   "SMS service not configured. Please contact administrator.",
   "SMS service configuration error. Invalid Account SID format.",
   "SMS service not configured. Please add FAST2SMS_API_KEY.",
   "Failed to send SMS",
   "SMS service authentication failed. Please check credentials.",
   "Invalid 'To' phone number format.",
   "The 'From' number is not verified for this region.",
   "This number has unsubscribed from SMS.",
   "Invalid response from SMS service",
   "Invalid API key. Please check your Fast2SMS API key.",
   "Insufficient balance. Please recharge your Fast2SMS account.",
   "Invalid mobile number format.",
   "An unexpected error occurred"}

CredentialStrings ==
  {"SMS service not configured. Please contact administrator.",
   "SMS service configuration error. Invalid Account SID format.",
   "SMS service not configured. Please add FAST2SMS_API_KEY."}

SmsDone == smsPc = "done" /\ smsReq.method # "OPTIONS"

\* The request's phone string did not pass the validator of the variant serving it.
SmsInvalidPhone ==
  /\ SmsPhoneRead
  /\ IF smsVariant = "twilio"
     THEN ~twilioIsValidIndianNumber(twilioCleanedNumber(smsReq.phoneNumber))
     ELSE ~fast2smsIsValidIndianNumber(fast2smsCleanedNumber(smsReq.phoneNumber))

\* The phone string passed and the provider's credentials are not all there.
SmsCredentialsMissing ==
  /\ SmsPhoneRead /\ ~SmsInvalidPhone
  /\ IF smsVariant = "twilio"
     THEN \/ SidMissing(smsEnv.sid) \/ ~smsEnv.hasToken \/ ~smsEnv.hasFrom
          \/ ~smsEnv.sid.startsWithAC \/ smsEnv.sid.length # 34
     ELSE ~smsEnv.hasApiKey

\* The gateway said it took the message.
GatewayAccepted(gw) ==
  /\ ~gw.threw
  /\ IF smsVariant = "twilio" THEN gw.ok
     ELSE gw.parses /\ ~gw.isNull /\ gw.return

\* The call to the gateway failed, or its answer says no or cannot be read.
SmsGatewayFailed ==
  /\ Len(smsGw) = 1
  /\ ~GatewayAccepted(smsGw[1]) \/ ~smsGw[1].parses \/ smsGw[1].isNull

SmsErrorIs(status, texts) ==
  /\ smsResp.status = status
  /\ DOMAIN smsResp.body = {"error"}
  /\ smsResp.body.error \in texts

PassedOnStrings ==
  {smsGw[k].message : k \in DOMAIN smsGw} \cup {smsGw[k].thrown : k \in DOMAIN smsGw}
  \cup {JsonSyntaxError, NullTypeError}

C7_SuccessOnlyAfterGatewayAccepted ==
  SmsDone =>
    /\ \/ /\ smsResp.status = 200
          /\ {"success", "message"} \subseteq DOMAIN smsResp.body
          /\ "error" \notin DOMAIN smsResp.body
          /\ smsResp.body.success = TRUE
          /\ smsResp.body.message # ""
       \/ /\ smsResp.status \in {400, 500}
          /\ DOMAIN smsResp.body = {"error"}
    /\ smsResp.status = 200 =>
          /\ Len(smsOutbound) = 1
          /\ Len(smsGw) = 1
          /\ GatewayAccepted(smsGw[1])

\* A request was forwarded, the gateway accepted, success went out.
C7_Witness ==
  /\ SmsDone
  /\ smsResp.status = 200
  /\ smsVariant = "twilio"
  /\ Len(smsOutbound) = 1
  /\ smsOutbound[1].To = Plus91 \o SubSeq(StrippedPhone, Len(StrippedPhone) - 9,
                                          Len(StrippedPhone))

\* ---- the three handlers ------------------------------------------------------

IsErrorResponse(resp) ==
  /\ resp.status \in {400, 500}
  /\ "error" \in DOMAIN resp.body
  /\ resp.body.error # ""

\* send-sms-alert: the body is not JSON or has no phone number, the number is
\* invalid, the credentials are missing, or the gateway failed.
SmsFailure ==
  /\ SmsDone
  /\ \/ ~smsReq.parses \/ ~smsReq.hasPhone
     \/ SmsInvalidPhone \/ SmsCredentialsMissing \/ SmsGatewayFailed

SeedDone(r) == seedPc[r] = "done" /\ seedUsgs[r] # ""

SeedUsgsFailure(r) == seedUsgs[r] \in {"not ok", "malformed"}

SeedWriteFailure(r) == \E k \in DOMAIN seedLog[r] : seedLog[r][k].error

FetchDone == fetchPc = "done" /\ fetchReq.method # "OPTIONS"

FetchUsgsFailure ==
  /\ Len(fetchUsgs) = 1
  /\ fetchUsgs[1].kind \in {"network error", "not ok", "not json", "bad feature"}

\* A year or a magnitude of the query is not a number.
FetchMalformedQuery ==
  NaN \in {fetchParsed.startYear, fetchParsed.endYear, fetchParsed.minMagnitude}

FetchAnswered200 == FetchDone /\ fetchResp.status = 200

\* C8 as stated: a 200 answer carries earthquakes, count, stats, dataType,
\* dateRange and source.
C8_ResponseCarriesSixFields ==
  FetchAnswered200 =>
    {"earthquakes", "count", "stats", "dataType", "dateRange", "source"}
      \subseteq DOMAIN fetchResp.body

\* C8, amended: a 200 answer carries exactly earthquakes, count, stats,
\* dataType and dateRange (there is no source field); dataType and dateRange
\* repeat the type, startYear and endYear of the query as parsed, and count is
\* the length of earthquakes.
C8_ResponseCarriesFiveFields ==
  FetchAnswered200 =>
    /\ DOMAIN fetchResp.body = {"earthquakes", "count", "stats", "dataType", "dateRange"}
    /\ fetchResp.body.count = Len(fetchResp.body.earthquakes)
    /\ fetchResp.body.dataType = OrElse(fetchReq.query.type, "", "recent")
    /\ fetchResp.body.dateRange =
         [startYear |-> fetchParsed.startYear, endYear |-> fetchParsed.endYear]

\* A query with state, region and limit was answered 200: the three are taken
\* and not applied (more than `limit` earthquakes, of other states too).
C8_Witness ==
  /\ FetchAnswered200
  /\ fetchReq.query.state = <<"Assam">>
  /\ fetchReq.query.limit = <<"10">>
  /\ fetchResp.body.count > 10
  /\ \E k \in DOMAIN fetchResp.body.earthquakes :
       fetchResp.body.earthquakes[k].state # "Assam"

\* ---- row-level security -------------------------------------------------

\* The step is a statement of a client.
ClientStep == clientCalls' # clientCalls

\* C11: a SELECT of any role returns every row of the table, and a statement
\* (insert, update, delete or select) run by a role other than the service role
\* leaves the table as it was.
C11_AllReadOnlyServiceRoleWrites ==
  [][ClientStep =>
       /\ clientCall'.command = "SELECT" => clientResult'.rows = AllRows(table)
       /\ clientCall'.role # "service_role" => table' = table]_vars

\* A browser role has tried to delete a row that is in the table, after an
\* earlier attempt, and the row is still there.
C11_Witness ==
  /\ clientCalls = MaxClientCalls
  /\ clientCall.role = "anon"
  /\ clientCall.command = "DELETE"
  /\ clientCall.id \in DOMAIN table
  /\ clientResult.rows = {}
  /\ Cardinality(DOMAIN table) > 1

\* ---- outbound calls ---------------------------------------------------------

\* C12: a request to send-sms-alert makes at most one call to the SMS gateway
\* and a request to fetch-earthquakes at most one call to USGS; once the call
\* has been answered, failed or not, the handler has returned, so no call is
\* made again.
C12_AtMostOneOutboundCall ==
  /\ Len(smsOutbound) <= 1
  /\ Len(smsGw) <= Len(smsOutbound)
  /\ smsGw # <<>> => smsPc = "done"
  /\ Len(fetchOutbound) <= 1
  /\ Len(fetchUsgs) <= Len(fetchOutbound)
  /\ fetchUsgs # <<>> => fetchPc = "done"

\* The gateway failed the one call of a request, and the handler has answered
\* with an error.
C12_Witness ==
  /\ SmsDone /\ SmsGatewayFailed
  /\ Len(smsOutbound) = 1 /\ Len(smsGw) = 1
  /\ IsErrorResponse(smsResp)

\* ---- the SMS subscription form ---------------------------------------------

\* loading is set exactly while an invocation is under way, and the submit
\* button is then disabled.
FormGuardHolds ==
  /\ formInFlight <= 1
  /\ formLoading <=> formInFlight = 1
  /\ formLoading => formSubmitDisabled(formLoading, formPhone)

\* C13: loading is true while an invocation of send-sms-alert is under way,
\* the submit button is disabled while loading is true, at most one invocation
\* is under way at any time, and loading always returns to false, however the
\* invocation settles.
C13_LoadingGuardsAndClears ==
  /\ []FormGuardHolds
  /\ formLoading ~> ~formLoading

\* A third submission is under way, the one before it having failed.
C13_Witness ==
  /\ formLoading /\ formInFlight = 1
  /\ formSubmits = MaxSubmits
  /\ formToast # "" /\ formToast # RegisteredToast
  /\ Len(formPhone) = 10

\* ---- send-sms-alert: order of the checks -------------------------------------

\* C15: the phone number is validated before the credentials are looked at and
\* before any call goes out: a request whose number is not an Indian mobile
\* number is answered 400, whatever the credentials, and no call is made to the
\* gateway for a request whose number is invalid or whose credentials are
\* missing or malformed.
C15_NumberCheckedBeforeCredentialsAndCall ==
  SmsPhoneRead =>
    /\ ~IndianMobile(StrippedPhone) =>
         /\ smsOutbound = <<>>
         /\ smsPc = "done" /\ smsResp.status = 400
    /\ SmsCredentialsMissing => smsOutbound = <<>>

\* ---- send-sms-alert: the number handed to the gateway ------------------------

\* The national number of an accepted phone string: the string itself when it
\* is ten digits, else what follows its country-code prefix.
NationalNumber(s) ==
  IF TenDigitMobile(s) THEN s
  ELSE IF StartsWith(s, Plus91) THEN SubSeq(s, Len(Plus91) + 1, Len(s))
  ELSE SubSeq(s, Len(Bare91) + 1, Len(s))

\* C16: every number the Twilio variant hands to the gateway as To is "+91"
\* followed by the ten-digit national number (first digit 6-9) of the phone
\* string submitted, in whichever accepted form it came.
C16_TwilioToIsE164 ==
  \A i \in 1..Len(smsOutbound) :
    smsOutbound[i].gateway = "twilio" =>
      /\ IndianMobile(StrippedPhone)
      /\ TenDigitMobile(NationalNumber(StrippedPhone))
      /\ smsOutbound[i].To = Plus91 \o NationalNumber(StrippedPhone)

\* A ten-digit number that itself begins with 91 went out to Twilio.
C16_Witness ==
  /\ smsVariant = "twilio"
  /\ smsOutbound # <<>>
  /\ Len(StrippedPhone) = 10
  /\ StartsWith(StrippedPhone, Bare91)

\* ---- send-sms-alert: the two variants side by side ---------------------------

\* What each variant does with a request when its credentials are in place.
TwilioDecision(req) ==
  twilioBefore(req, [sid |-> GoodSid, hasToken |-> TRUE, hasFrom |-> TRUE])

Fast2smsDecision(req) == fast2smsBefore(req, [hasApiKey |-> TRUE])

\* C17: on every phone string the Twilio variant and the Fast2SMS variant
\* decide alike, and when both accept they target the same ten-digit national
\* number: the string without separators and without its country-code prefix.
C17_VariantsDecideAndTargetAlike ==
  SmsPhoneRead =>
    LET t == TwilioDecision(smsReq)
        f == Fast2smsDecision(smsReq)
    IN  /\ t.kind = "call" <=> f.kind = "call"
        /\ t.kind = "call" /\ f.kind = "call" =>
             /\ f.call.To = NationalNumber(StrippedPhone)
             /\ t.call.To = Plus91 \o f.call.To

\* ---- fetch-earthquakes: USGS refusing, and the historical type ---------------

\* The handler is serving, or has served, a GET request.
FetchGetStarted == fetchPc # "idle" /\ fetchReq.method = "GET"

\* USGS answered the request with a non-OK status.
UsgsRefused == fetchUsgs # <<>> /\ fetchUsgs[1].kind = "not ok"

\* C18: when USGS answers a request of type recent or all with a non-OK
\* status, the response has status 500 and an error message and no earthquakes,
\* the built-in historical records included; a request of type historical
\* never reaches USGS and is answered 200.
C18_UsgsRefusalIs500HistoricalIs200 ==
  FetchGetStarted =>
    /\ fetchParsed.dataType \in {"recent", "all"} /\ UsgsRefused =>
         /\ fetchPc = "done"
         /\ fetchResp.status = 500
         /\ DOMAIN fetchResp.body = {"error"}
         /\ fetchResp.body.error # ""
    /\ fetchParsed.dataType = "historical" =>
         /\ fetchOutbound = <<>> /\ fetchUsgs = <<>>
         /\ fetchPc = "done"
         /\ fetchResp.status = 200

\* USGS refused a request of type all whose year range holds built-in records.
C18_Witness ==
  /\ FetchGetStarted /\ UsgsRefused
  /\ fetchParsed.dataType = "all"
  /\ fetchNewHistorical(fetchParsed, <<>>) # <<>>
  /\ fetchResp.status = 500

\* ---- fetch-earthquakes: the built-in catalogue in the response ---------------

\* A GET request of type historical or all was answered with a list.
FetchAnsweredWithCatalogue ==
  /\ fetchPc = "done" /\ fetchReq.method = "GET"
  /\ fetchParsed.dataType \in {"historical", "all"}
  /\ fetchResp.status = 200

\* The record's year and magnitude lie within the bounds of the request.
WithinRequestBounds(eq) ==
  /\ NumGe(<<eq.time.y>>, fetchParsed.startYear)
  /\ NumGe(fetchParsed.endYear, <<eq.time.y>>)
  /\ NumGe(<<eq.magnitude>>, fetchParsed.minMagnitude)

ReturnedIds ==
  {fetchResp.body.earthquakes[k].id : k \in DOMAIN fetchResp.body.earthquakes}

\* C19: for type historical or all the response holds every record of the
\* built-in catalogue whose year lies in [startYear, endYear] and whose
\* magnitude is at least minMagnitude, and no catalogue record outside those
\* bounds.
C19_CatalogueRecordsWithinBoundsReturned ==
  FetchAnsweredWithCatalogue =>
    \A k \in DOMAIN historicalEarthquakes :
      historicalEarthquakes[k].id \in ReturnedIds
        <=> WithinRequestBounds(historicalEarthquakes[k])

\* ---- fetch-earthquakes: the order of the list --------------------------------

\* The handler answered with a list of earthquakes.
FetchAnsweredWithList ==
  /\ fetchPc = "done" /\ fetchReq.method = "GET"
  /\ fetchResp.status = 200

CatalogueIds == {historicalEarthquakes[k].id : k \in DOMAIN historicalEarthquakes}

\* C20: the earthquakes of every response are sorted by time, most recent
\* first: of two adjacent entries the second is never later than the first,
\* whatever the mix of USGS and built-in records.
C20_ListSortedNewestFirst ==
  FetchAnsweredWithList =>
    LET list == fetchResp.body.earthquakes IN
    \A i \in 1..(Len(list) - 1) : ~TimeAfter(list[i + 1].time, list[i].time)

\* USGS sent an older event before a newer one, and in the response a USGS
\* event stands between two built-in records.
C20_Witness ==
  /\ FetchAnsweredWithList
  /\ fetchUsgs # <<>> /\ Len(fetchUsgs[1].features) >= 2
  /\ TimeAfter(fetchUsgs[1].features[2].properties.time,
               fetchUsgs[1].features[1].properties.time)
  /\ LET list == fetchResp.body.earthquakes IN
     \E i, j, k \in DOMAIN list :
       /\ i < j /\ j < k
       /\ list[i].id \in CatalogueIds /\ list[k].id \in CatalogueIds
       /\ list[j].id \notin CatalogueIds

\* ---- fetch-earthquakes: merging USGS and built-in records --------------------

\* The features USGS sent for the request (none when it sent no list).
UsgsFeatures ==
  IF fetchUsgs # <<>> /\ fetchUsgs[1].kind = "ok" THEN fetchUsgs[1].features
  ELSE NoFeatures

UsgsIds == {UsgsFeatures[k].id : k \in DOMAIN UsgsFeatures}

UsgsIdsUnique ==
  \A i, j \in DOMAIN UsgsFeatures : UsgsFeatures[i].id = UsgsFeatures[j].id => i = j

\* C21: when the ids of the USGS feed are unique, no two entries of the list
\* of a response have the same id, and a built-in record selected by the
\* request is left out of the list exactly when USGS returned an entry with
\* its id.
C21_MergedListHasNoDuplicateIds ==
  FetchAnsweredWithList /\ UsgsIdsUnique =>
    LET list == fetchResp.body.earthquakes
        selected == IF fetchParsed.dataType \in {"historical", "all"}
                    THEN fetchFilteredHistorical(fetchParsed) ELSE <<>>
    IN  /\ \A i, j \in DOMAIN list : list[i].id = list[j].id => i = j
        /\ \A k \in DOMAIN selected :
             (\A i \in DOMAIN list : list[i] # selected[k])
               <=> selected[k].id \in UsgsIds

\* USGS sent an event under the id of a built-in record that the request
\* selects; the list holds that id, and other built-in records beside it.
C21_Witness ==
  /\ FetchAnsweredWithList
  /\ fetchParsed.dataType = "all"
  /\ "hist-1991" \in UsgsIds
  /\ \E k \in DOMAIN fetchFilteredHistorical(fetchParsed) :
       fetchFilteredHistorical(fetchParsed)[k].id = "hist-1991"
  /\ "hist-1991" \in ReturnedIds /\ "hist-1993" \in ReturnedIds

\* ---- the labels of a record --------------------------------------------------

\* The entries of the list of the response (none when there is no list).
ReturnedEntries ==
  IF FetchAnsweredWithList
  THEN {fetchResp.body.earthquakes[k] : k \in DOMAIN fetchResp.body.earthquakes}
  ELSE {}

\* C22: every record returned by fetch-earthquakes and every row stored by the
\* seed job carries the labels derived from its coordinates: its state is
\* getIndianState(lat, lng) and its region is getRegion(state).
C22_RecordsCarryDerivedLabels ==
  /\ \A eq \in ReturnedEntries :
       /\ eq.state = fetchGetIndianState(eq.coordinates.lat, eq.coordinates.lng)
       /\ eq.region = fetchGetRegion(eq.state)
  /\ \A row \in AllRows(table) :
       /\ row.state = getIndianState(row.latitude, row.longitude)
       /\ row.region = getRegion(row.state)

\* ---- the historical flag -----------------------------------------------------

\* C23: in every record returned by fetch-earthquakes and in every row stored
\* by the seed job the historical flag is true exactly when the year of the
\* event is earlier than 2000.
C23_HistoricalFlagIffBefore2000 ==
  /\ \A eq \in ReturnedEntries : eq.isHistorical = <<eq.time.y < 2000>>
  /\ \A row \in AllRows(table) : row.is_historical = (row.occurred_at.y < 2000)

\* ---- fetch-earthquakes: the aggregates of a response -------------------------

RECURSIVE SumOfCounts(_, _)
\* The sum of the counts of the keys in keys.
SumOfCounts(counts, keys) ==
  IF keys = {} THEN 0
  ELSE LET key == CHOOSE x \in keys : TRUE
       IN  counts[key] + SumOfCounts(counts, keys \ {key})

\* C24: in every successful response the aggregates agree with the list:
\* count and stats.total are the number of entries, the counts of byRegion and
\* those of byDecade each sum to stats.total, and maxMagnitude is the largest
\* magnitude of the list, 0 for an empty list.
C24_AggregatesAgreeWithList ==
  FetchAnsweredWithList =>
    LET list == fetchResp.body.earthquakes
        st == fetchResp.body.stats
    IN  /\ fetchResp.body.count = Len(list)
        /\ st.total = Len(list)
        /\ SumOfCounts(st.byRegion, DOMAIN st.byRegion) = st.total
        /\ SumOfCounts(st.byDecade, DOMAIN st.byDecade) = st.total
        /\ \A k \in DOMAIN list : list[k].magnitude <= st.maxMagnitude
        /\ IF list = <<>> THEN st.maxMagnitude = 0
           ELSE \E k \in DOMAIN list : list[k].magnitude = st.maxMagnitude

\* A response whose list holds several regions and decades, one of them more
\* than once, and whose largest magnitude is not that of the first entry.
C24_Witness ==
  /\ FetchAnsweredWithList
  /\ LET list == fetchResp.body.earthquakes
         st == fetchResp.body.stats
     IN  /\ Len(list) >= 3
         /\ Cardinality(DOMAIN st.byRegion) >= 2
         /\ \E r \in DOMAIN st.byRegion : st.byRegion[r] >= 2
         /\ \E d \in DOMAIN st.byDecade : st.byDecade[d] >= 2
         /\ list[1].magnitude < st.maxMagnitude

\* ---- the pre-computed statistics against the records -------------------------

\* How many records of the list carry value under the label picked by field.
CountOf(list, field, value) ==
  Cardinality({k \in DOMAIN list : list[k][field] = value})

\* The statistics of a list of records, counted record by record.
StatsOfRecords(list, tieUp) ==
  [total |-> Len(list),
   avgMagnitude |-> [type |-> "string",
                     tenths |-> toFixed(SumMagnitude(list, 1), 10 * Len(list), tieUp)],
   maxMagnitude |-> MaxOf({list[k].magnitude : k \in DOMAIN list}),
   byRegion |-> [r \in {list[k].region : k \in DOMAIN list} |->
                   CountOf(list, "region", r)],
   byDecade |-> [d \in {DecadeKey(list[k].time) : k \in DOMAIN list} |->
                   Cardinality({k \in DOMAIN list : DecadeKey(list[k].time) = d})],
   byState |-> [s \in {list[k].state : k \in DOMAIN list} |->
                  CountOf(list, "state", s)]]

\* The archive view shows the static data with its filters as mounted.
ArchiveUnfiltered ==
  /\ archiveVariant = "static"
  /\ yearRange = <<1976, 2026>>
  /\ minMagnitude = 300

\* C25: the pre-computed staticStats are the statistics of staticEarthquakes
\* (total, counts by region, decade and state, largest magnitude, mean
\* magnitude to one decimal), so the summary of the map and the archive view
\* with no filter applied show the same numbers.
C25_StaticStatsAgreeWithRecords ==
  ArchiveUnfiltered =>
    \A tieUp \in BOOLEAN :
      /\ indiaMapStats = StatsOfRecords(staticEarthquakes, tieUp)
      /\ LET shown == filteredStats(ArchiveList, tieUp) IN
         /\ shown # NoStats
         /\ \A f \in DOMAIN shown[1] : shown[1][f] = indiaMapStats[f]

\* ---- the refresh timer of the live map ---------------------------------------

\* C26: the live map refreshes the earthquake data on a timer according to
\* the live status, every minute when live and every 5 minutes when paused:
\* never do more minutes pass without a timer refresh than the interval of
\* the current status.
C26_RefreshEveryMinuteLiveFiveMinutesPaused ==
  sinceTimer <= (IF isLive THEN 1 ELSE 5)

\* ---- refreshes of the live map in flight together ----------------------------

\* The refresh started last was started while another one was in flight, every
\* refresh has completed, and the one started last was answered with a list.
OverlappingRefreshesCompleted ==
  /\ refreshCount >= 2
  /\ refreshOverlap[refreshCount]
  /\ refreshInFlight = {}
  /\ refreshAnswer[refreshCount].kind = "ok"

\* C27: when two refreshes of the live map are in flight at the same time and
\* their responses arrive in any order, the earthquake list and the markers
\* shown once both have completed are those of the refresh started last.
C27_LatestStartedRefreshIsShown ==
  OverlappingRefreshesCompleted =>
    /\ mapEarthquakes = refreshAnswer[refreshCount].earthquakes
    /\ markers = refreshAnswer[refreshCount].earthquakes

====
